---- MODULE Spec2Model ----
(***************************************************************************)
(* Model of the field detector of hiya-voice (FormDetector, the variant    *)
(* with the overlay filter and the first-span option texts) over a small   *)
(* DOM.  A JavaScript string is a sequence of one-character strings, so    *)
(* that trim, split and join do what the code's calls do.                  *)
(***************************************************************************)
EXTENDS Integers, Sequences, FiniteSets, TLC

(***************************************************************************)
(* Strings                                                                 *)
(***************************************************************************)
\* getAttribute() of an absent attribute, querySelector() without a match
Null == <<"NULL">>

EmptyStr == <<>>

IsSpace(c) == c \in {" ", "\t", "\n"}

RECURSIVE trimStart(_)
trimStart(s) ==
  IF s = <<>> THEN s
  ELSE IF IsSpace(Head(s)) THEN trimStart(Tail(s)) ELSE s

RECURSIVE trimEnd(_)
trimEnd(s) ==
  IF s = <<>> THEN s
  ELSE IF IsSpace(s[Len(s)]) THEN trimEnd(SubSeq(s, 1, Len(s) - 1)) ELSE s

\* String.prototype.trim
trim(s) == trimEnd(trimStart(s))

\* index of the first occurrence of character c in s, 0 when there is none
RECURSIVE indexOfChar(_, _, _)
indexOfChar(s, c, from) ==
  IF from > Len(s) THEN 0
  ELSE IF s[from] = c THEN from ELSE indexOfChar(s, c, from + 1)

\* String.prototype.split(c) for a one-character separator: "" gives [""]
RECURSIVE split(_, _)
split(s, c) ==
  LET i == indexOfChar(s, c, 1)
  IN  IF i = 0 THEN <<s>>
      ELSE <<SubSeq(s, 1, i - 1)>> \o split(SubSeq(s, i + 1, Len(s)), c)

\* Array.prototype.join(sep)
RECURSIVE join(_, _)
join(parts, sep) ==
  IF parts = <<>> THEN <<>>
  ELSE IF Len(parts) = 1 THEN parts[1]
  ELSE parts[1] \o sep \o join(Tail(parts), sep)

\* Array.prototype.map
mapSeq(F(_), xs) == [i \in 1..Len(xs) |-> F(xs[i])]

\* Array.prototype.filter
filterSeq(P(_), xs) == SelectSeq(xs, P)

Range(xs) == {xs[i] : i \in 1..Len(xs)}

\* Array.prototype.indexOf, 1-based here, 0 when absent (JavaScript: -1)
indexOf(xs, x) ==
  IF \E i \in 1..Len(xs) : xs[i] = x
  THEN CHOOSE i \in 1..Len(xs) : xs[i] = x /\ \A j \in 1..(i - 1) : xs[j] # x
  ELSE 0

\* a || b on strings and attribute values: the empty string and null are falsy
Truthy(s) == s # Null /\ s # <<>>
OrElse(a, b) == IF Truthy(a) THEN a ELSE b

(***************************************************************************)
(* The page.  Page lists the nodes in document order; parent 0 is          *)
(* document.body.  Text nodes carry the text, elements the attributes the  *)
(* detector reads.                                                         *)
(***************************************************************************)
Node0 ==
  [tag |-> "DIV", parent |-> 0, text |-> <<>>, id |-> Null, cls |-> <<>>,
   role |-> "", type |-> "", name |-> Null, placeholder |-> Null,
   title |-> Null, autocomplete |-> Null, ariaLabel |-> Null,
   ariaLabelledby |-> Null, ariaDescribedby |-> Null, htmlFor |-> Null,
   dataLabel |-> Null, dataFieldLabel |-> Null, ariaRequired |-> "",
   required |-> FALSE, disabled |-> FALSE, display |-> "",
   cssDisplay |-> "", visibility |-> "", jsmodel |-> FALSE, jscontroller |-> FALSE,
   optValue |-> Null]

Text(p, t) == [Node0 EXCEPT !.tag = "#text", !.parent = p, !.text = t]

OverlayId == <<"h","i","y","a","-","o","v","e","r","l","a","y","-",
               "c","o","n","t","a","i","n","e","r">>

Page ==
  << \* 1: the extension's own overlay and its phrase-name input
     [Node0 EXCEPT !.id = OverlayId],
     [Node0 EXCEPT !.tag = "INPUT", !.parent = 1, !.type = "text"],
     \* 3: the page's form; 4: a section a page script attaches and detaches
     [Node0 EXCEPT !.tag = "FORM"],
     [Node0 EXCEPT !.parent = 3],
     [Node0 EXCEPT !.tag = "LABEL", !.parent = 4, !.htmlFor = <<"f","n">>],
     Text(5, <<"N","a","m","e","*">>),
     \* 7: required text input
     [Node0 EXCEPT !.tag = "INPUT", !.parent = 4, !.type = "text",
                   !.id = <<"f","n">>, !.required = TRUE],
     \* 8: required ARIA radio group, options "S" and "L"
     [Node0 EXCEPT !.parent = 4, !.role = "radiogroup",
                   !.ariaLabel = <<"S","i","z","e">>, !.ariaRequired = "true"],
     [Node0 EXCEPT !.parent = 8, !.role = "radio", !.cls = <<"o">>,
                   !.ariaLabel = <<"S">>],
     [Node0 EXCEPT !.parent = 8, !.role = "radio", !.cls = <<"o">>],
     [Node0 EXCEPT !.tag = "SPAN", !.parent = 10],
     Text(11, <<"L">>),
     Text(10, <<"x">>),
     \* 14: native checkbox, 15: hidden input
     [Node0 EXCEPT !.tag = "INPUT", !.parent = 3, !.type = "checkbox",
                   !.name = <<"o","k">>],
     [Node0 EXCEPT !.tag = "INPUT", !.parent = 3, !.type = "hidden"],
     \* 16: outer container of the ARIA checkbox group 17, options "S" and "L"
     [Node0 EXCEPT !.parent = 3],
     [Node0 EXCEPT !.parent = 16, !.role = "group", !.id = <<"g">>],
     [Node0 EXCEPT !.parent = 17, !.role = "checkbox", !.cls = <<"c">>,
                   !.ariaLabel = <<"S">>],
     [Node0 EXCEPT !.parent = 17, !.role = "checkbox", !.cls = <<"c">>],
     [Node0 EXCEPT !.tag = "SPAN", !.parent = 19],
     Text(20, <<"L">>),
     Text(19, <<"x">>) >>

\* the subtrees that page scripts attach and detach: the section and the form
Removable == {3, 4}

\* what the page shows selected when it loads: the ARIA options, the native
\* checkboxes
Preselected == {9}
Prechecked == {14}

HIGHLIGHT_CLASS == "hiya-current-field"

VARIABLES
  document,           \* the nodes of the page, in document order
  detached,           \* the Removable roots that are out of the document
  value,              \* value property of the native controls
  checked,            \* checked property of the native controls
  selectedIndex,      \* selectedIndex of the select elements, -1 for none
  ariaChecked,        \* aria-checked attribute: "null", "true" or "false"
  classList,          \* class tokens of every node, in the order added
  fields,             \* FormDetector.fields
  currentFieldIndex,  \* FormDetector.currentFieldIndex
  focusTarget,        \* the node focus() was last called on, -1 for none
  styleInjected,      \* the highlight style element is in document.head
  fills,              \* number of fillCurrentField calls so far
  mutations,          \* number of page mutations so far
  events,             \* events dispatched by the last operation
  op,                 \* the last operation and its argument
  ret,                \* what the last operation returned
  isExtensionEnabled, \* content script: isExtensionEnabled
  location,           \* location.href, the URLs numbered from 0
  lastUrl,            \* content script: lastUrl
  records,            \* mutation records are queued for the observer
  popstate,           \* a popstate event is queued for the listener
  stale,              \* the URL has changed and no scan has run since
  handler,            \* the content script handler of the last step, if any
  urlChanges,         \* number of URL changes so far
  overlay,            \* content script: overlay is not null
  readyState,         \* document.readyState
  storage,            \* chrome.storage.local: extensionEnabled is not false
  pendingGet,         \* the storage read of the script: issued, the value
                      \* read, or done once its callback has run
  inbox,              \* the popup's message on its way to the content script
  toggles,            \* number of times the popup's switch was flipped
  switchedOff,        \* DISABLE_EXTENSION was handled, ENABLE_EXTENSION not since
  response,           \* the sendResponse calls of the last message listener run
  tasks,              \* the voice-input handlers waiting at an await
  sessions,           \* the speech recognition sessions started, by number
  activeRecognition,  \* content script: activeRecognition, 0 for null
  lastFill            \* the last fill a voice-input handler made

detectorVars ==
  <<document, detached, value, checked, selectedIndex, ariaChecked, classList,
    fields, currentFieldIndex, focusTarget, styleInjected, fills, mutations,
    events, op, ret>>

\* the overlay, the page load, the stored setting and the messages
overlayVars ==
  <<overlay, readyState, storage, pendingGet, inbox, toggles, switchedOff, response>>

\* the voice-input handlers in flight and the recognition sessions
voiceVars == <<tasks, sessions, activeRecognition, lastFill>>

scriptVars ==
  <<isExtensionEnabled, location, lastUrl, records, popstate, stale, urlChanges,
    overlayVars, voiceVars>>

vars == <<document, detached, value, checked, selectedIndex, ariaChecked, classList, fields,
          currentFieldIndex, focusTarget, styleInjected, fills, mutations,
          events, op, ret, isExtensionEnabled, location, lastUrl, records,
          popstate, stale, handler, urlChanges, overlay, readyState, storage,
          pendingGet, inbox, toggles, switchedOff, response, tasks, sessions,
          activeRecognition, lastFill>>

\* no message listener has run yet
NoResponse == [count |-> 0, type |-> "", success |-> "undefined", error |-> ""]

\* no voice-input handler has filled a field yet
NoFill == [meant |-> -1, filled |-> -1]

\* the module-level state of the content script when it starts
scriptStart ==
  /\ isExtensionEnabled = TRUE
  /\ location = 0
  /\ lastUrl = 0
  /\ records = FALSE
  /\ popstate = FALSE
  /\ stale = FALSE
  /\ handler = ""
  /\ urlChanges = 0
  /\ inbox = ""
  /\ toggles = 0
  /\ switchedOff = FALSE
  /\ response = NoResponse
  /\ tasks = {}
  /\ sessions = <<>>
  /\ activeRecognition = 0
  /\ lastFill = NoFill

\* the content script on a loaded page, after the storage callback found
\* the extension enabled and built the overlay: lastUrl = location.href
scriptInit ==
  /\ scriptStart
  /\ overlay = TRUE
  /\ readyState = "complete"
  /\ storage = TRUE
  /\ pendingGet = "done"

\* a step that is a call of the detector or an act of the page, outside the
\* handlers of the content script
direct == handler' = "" /\ UNCHANGED scriptVars

counters == <<fills, mutations>>

domVars == <<document, detached, value, checked, selectedIndex, ariaChecked,
            classList>>

Nodes == 1..Len(document)

NativeNodes ==
  {n \in Nodes : document[n].tag \in {"INPUT", "TEXTAREA", "SELECT"}}
SelectNodes == {n \in Nodes : document[n].tag = "SELECT"}
AriaNodes   == {n \in Nodes : document[n].role \in {"radio", "checkbox"}}

\* Node.parentElement: a detached root has none
parentElement(n) == IF n \in detached THEN 0 ELSE document[n].parent

RECURSIVE inDocument(_)
inDocument(n) ==
  IF n = 0 THEN TRUE
  ELSE IF n \in detached THEN FALSE ELSE inDocument(document[n].parent)

\* Element.closest(selector): the nearest inclusive ancestor matching, or 0
RECURSIVE inclusiveAncestors(_)
inclusiveAncestors(n) ==
  IF n = 0 THEN <<>> ELSE <<n>> \o inclusiveAncestors(parentElement(n))

closest(n, Sel(_)) ==
  LET hits == SelectSeq(inclusiveAncestors(n), Sel)
  IN  IF hits = <<>> THEN 0 ELSE hits[1]

RECURSIVE isDescendant(_, _)
isDescendant(n, a) ==
  IF n = 0 THEN FALSE
  ELSE IF document[n].parent = a THEN TRUE ELSE isDescendant(document[n].parent, a)

\* the nodes of a set as a sequence in document order
RECURSIVE inOrder(_)
inOrder(S) ==
  IF S = {} THEN <<>>
  ELSE LET m == CHOOSE x \in S : \A y \in S : x <= y
       IN  <<m>> \o inOrder(S \ {m})

isElement(n) == document[n].tag # "#text"

\* document.querySelectorAll(selector)
querySelectorAll(Sel(_)) ==
  inOrder({n \in Nodes : isElement(n) /\ inDocument(n) /\ Sel(n)})

\* element.querySelector(selector): first matching descendant, or 0
querySelector(a, Sel(_)) ==
  LET S == {n \in Nodes : isElement(n) /\ isDescendant(n, a) /\ Sel(n)}
  IN  IF S = {} THEN 0 ELSE CHOOSE x \in S : \A y \in S : x <= y

\* Node.textContent of an element
textContent(a) ==
  LET ts == inOrder({n \in Nodes : document[n].tag = "#text" /\ isDescendant(n, a)})
      RECURSIVE cat(_)
      cat(xs) == IF xs = <<>> THEN <<>> ELSE document[Head(xs)].text \o cat(Tail(xs))
  IN  cat(ts)

\* Element.className
className(n) == classList[n]

classListAdd(cl, n, c) ==
  IF c \in Range(cl[n]) THEN cl ELSE [cl EXCEPT ![n] = Append(@, c)]

classListRemove(cl, n, c) ==
  LET keep(t) == t # c IN [cl EXCEPT ![n] = filterSeq(keep, @)]

\* getComputedStyle(el).display / .visibility (inherited), el.offsetParent;
\* display is the inline style, cssDisplay what the style sheets give
computedDisplay(n) ==
  IF document[n].display # "" THEN document[n].display
  ELSE document[n].cssDisplay

RECURSIVE computedVisibility(_)
computedVisibility(n) ==
  IF n = 0 THEN "visible"
  ELSE IF document[n].visibility # "" THEN document[n].visibility
  ELSE computedVisibility(document[n].parent)

RECURSIVE hasOffsetParent(_)
hasOffsetParent(n) ==
  IF n = 0 THEN TRUE
  ELSE IF computedDisplay(n) = "none" THEN FALSE
  ELSE hasOffsetParent(document[n].parent)

(***************************************************************************)
(* Label resolution                                                        *)
(***************************************************************************)
\* replace(/\s+/g, ' ')
RECURSIVE collapseSpaces(_)
collapseSpaces(s) ==
  IF s = <<>> THEN s
  ELSE IF IsSpace(Head(s))
       THEN <<" ">> \o collapseSpaces(trimStart(Tail(s)))
       ELSE <<Head(s)>> \o collapseSpaces(Tail(s))

\* replace(/[*:]\s*$/, '')
stripTrailingMark(s) ==
  LET t == trimEnd(s)
  IN  IF t # <<>> /\ t[Len(t)] \in {"*", ":"}
      THEN SubSeq(t, 1, Len(t) - 1) ELSE s

cleanLabel(text) == trim(stripTrailingMark(collapseSpaces(trim(text))))

isHeadingRole(n) == document[n].role = "heading"
isJsmodelDiv(n)  == document[n].tag = "DIV" /\ document[n].jsmodel

\* the inclusive ancestors the upward loops visit: document.body stops them
extractGoogleFormsLabelForTextBox(element) ==
  LET found(a) == /\ isJsmodelDiv(a)
                  /\ querySelector(a, isHeadingRole) # 0
                  /\ textContent(querySelector(a, isHeadingRole)) # <<>>
      hits == SelectSeq(inclusiveAncestors(element), found)
  IN  IF hits = <<>> THEN Null
      ELSE trim(textContent(querySelector(hits[1], isHeadingRole)))

extractGoogleFormsLabelForGroup(element) ==
  LET hits == SelectSeq(inclusiveAncestors(element), isJsmodelDiv)
      hasCtl(n) == document[n].jscontroller
      isDiv(n)  == document[n].tag = "DIV"
      isSpan(n) == document[n].tag = "SPAN"
  IN  IF hits = <<>> THEN Null
      ELSE LET ctl == querySelector(hits[1], hasCtl)
               div == IF ctl = 0 THEN 0 ELSE querySelector(ctl, isDiv)
               hd  == IF div = 0 THEN 0 ELSE querySelector(div, isHeadingRole)
               sp  == IF hd = 0 THEN 0 ELSE querySelector(hd, isSpan)
           IN  IF hd = 0 THEN Null
               ELSE IF sp # 0 /\ textContent(sp) # <<>>
                    THEN trim(textContent(sp))
               ELSE IF textContent(hd) # <<>> THEN trim(textContent(hd))
               ELSE Null

\* document.getElementById(id): the first element of the document with it
getElementById(id) ==
  LET S == {n \in Nodes : isElement(n) /\ inDocument(n) /\ document[n].id = id}
  IN  IF S = {} THEN 0 ELSE CHOOSE x \in S : \A y \in S : x <= y

\* Element.previousElementSibling, or 0
previousElementSibling(n) ==
  LET S == {m \in Nodes : /\ isElement(m) /\ m < n /\ m \notin detached
                          /\ n \notin detached
                          /\ document[m].parent = document[n].parent}
  IN  IF S = {} THEN 0 ELSE CHOOSE x \in S : \A y \in S : y <= x

isNativeTag(n) == document[n].tag \in {"INPUT", "TEXTAREA", "SELECT"}

\* textContent of a clone of the label with its input, textarea and select
\* descendants removed
labelTextWithoutControls(a) ==
  LET inControl(t) ==
        \E c \in Nodes : /\ isNativeTag(c) /\ isDescendant(c, a)
                         /\ isDescendant(t, c)
      ts == inOrder({n \in Nodes : /\ document[n].tag = "#text"
                                   /\ isDescendant(n, a) /\ ~inControl(n)})
      RECURSIVE cat(_)
      cat(xs) == IF xs = <<>> THEN <<>> ELSE document[Head(xs)].text \o cat(Tail(xs))
  IN  cat(ts)

\* name.replace(/[_-]/g, ' ')
replaceSeparators(s) ==
  [i \in 1..Len(s) |-> IF s[i] \in {"_", "-"} THEN " " ELSE s[i]]

UnlabeledField ==
  <<"U","n","l","a","b","e","l","e","d"," ","f","i","e","l","d">>

\* the heading among the three preceding element siblings, or 0
precedingHeading(element) ==
  LET p1 == previousElementSibling(element)
      p2 == IF p1 = 0 THEN 0 ELSE previousElementSibling(p1)
      p3 == IF p2 = 0 THEN 0 ELSE previousElementSibling(p2)
      isH(n) == n # 0 /\ document[n].tag \in {"H1", "H2", "H3", "H4", "H5", "H6"}
  IN  IF isH(p1) THEN p1 ELSE IF isH(p2) THEN p2 ELSE IF isH(p3) THEN p3 ELSE 0

extractLabel(element) ==
  LET e       == document[element]
      google  == extractGoogleFormsLabelForTextBox(element)
      isLabelFor(n) == document[n].tag = "LABEL" /\ document[n].htmlFor = e.id
      forLbl  == IF Truthy(e.id) /\ querySelectorAll(isLabelFor) # <<>>
                 THEN querySelectorAll(isLabelFor)[1] ELSE 0
      isLabel(n) == document[n].tag = "LABEL"
      parentLabel == closest(element, isLabel)
      byEl    == IF Truthy(e.ariaLabelledby)
                 THEN getElementById(e.ariaLabelledby) ELSE 0
      descEl  == IF Truthy(e.ariaDescribedby)
                 THEN getElementById(e.ariaDescribedby) ELSE 0
      prev    == previousElementSibling(element)
      prevText == IF prev = 0 THEN <<>> ELSE trim(textContent(prev))
      heading == precedingHeading(element)
      parent  == parentElement(element)
      dataLabel == IF parent = 0 THEN Null
                   ELSE OrElse(document[parent].dataLabel, document[parent].dataFieldLabel)
  IN  IF Truthy(google) THEN cleanLabel(google)
      ELSE IF forLbl # 0 /\ textContent(forLbl) # <<>>
           THEN cleanLabel(textContent(forLbl))
      ELSE IF parentLabel # 0 /\ trim(labelTextWithoutControls(parentLabel)) # <<>>
           THEN cleanLabel(labelTextWithoutControls(parentLabel))
      ELSE IF Truthy(e.ariaLabel) THEN cleanLabel(e.ariaLabel)
      ELSE IF byEl # 0 /\ textContent(byEl) # <<>>
           THEN cleanLabel(textContent(byEl))
      ELSE IF descEl # 0 /\ textContent(descEl) # <<>>
           THEN cleanLabel(textContent(descEl))
      ELSE IF /\ prev # 0 /\ document[prev].tag \in {"LABEL", "SPAN", "DIV"}
              /\ Len(prevText) > 0 /\ Len(prevText) < 100
           THEN cleanLabel(prevText)
      ELSE IF heading # 0 THEN cleanLabel(textContent(heading))
      ELSE IF Truthy(dataLabel) THEN cleanLabel(dataLabel)
      ELSE IF Truthy(e.placeholder) THEN cleanLabel(e.placeholder)
      ELSE IF Truthy(e.title) THEN cleanLabel(e.title)
      ELSE IF Truthy(e.name) THEN cleanLabel(replaceSeparators(e.name))
      ELSE UnlabeledField

(***************************************************************************)
(* Type classification                                                     *)
(***************************************************************************)
UpperCase == <<"A","B","C","D","E","F","G","H","I","J","K","L","M",
               "N","O","P","Q","R","S","T","U","V","W","X","Y","Z">>
LowerCase == <<"a","b","c","d","e","f","g","h","i","j","k","l","m",
               "n","o","p","q","r","s","t","u","v","w","x","y","z">>
Digits    == <<"0","1","2","3","4","5","6","7","8","9">>

toLowerCase(s) ==
  [i \in 1..Len(s) |->
     IF s[i] \in Range(UpperCase) THEN LowerCase[indexOf(UpperCase, s[i])]
     ELSE s[i]]

\* String.prototype.includes
includes(s, sub) ==
  \E i \in 0..(Len(s) - Len(sub)) : SubSeq(s, i + 1, i + Len(sub)) = sub

\* \w of a regular expression
isWordChar(c) ==
  c \in Range(UpperCase) \cup Range(LowerCase) \cup Range(Digits) \cup {"_"}

hasAt(s, i, w) == i + Len(w) - 1 <= Len(s) /\ SubSeq(s, i, i + Len(w) - 1) = w
boundaryBefore(s, i) == i = 1 \/ ~isWordChar(s[i - 1])
boundaryAfter(s, j)  == j >= Len(s) \/ ~isWordChar(s[j + 1])

\* s.match(/\b(w)\b/)
matchWord(s, w) ==
  \E i \in 1..Len(s) :
     hasAt(s, i, w) /\ boundaryBefore(s, i) /\ boundaryAfter(s, i + Len(w) - 1)

\* s.match(/\b(w1[\s-]?w2)\b/)
matchTwo(s, w1, w2) ==
  \E i \in 1..Len(s) :
     /\ hasAt(s, i, w1) /\ boundaryBefore(s, i)
     /\ LET k == i + Len(w1)
        IN  \/ hasAt(s, k, w2) /\ boundaryAfter(s, k + Len(w2) - 1)
            \/ /\ k <= Len(s) /\ (IsSpace(s[k]) \/ s[k] = "-")
               /\ hasAt(s, k + 1, w2) /\ boundaryAfter(s, k + Len(w2))

\* the value of a string property or attribute, '' when absent
strOf(a) == IF a = Null THEN <<>> ELSE a

inferFromAutocomplete(ac) ==
  IF includes(ac, <<"e","m","a","i","l">>)
       THEN "email"
  ELSE IF includes(ac, <<"t","e","l">>)
       THEN "phone"
  ELSE IF \/ ac = <<"n","a","m","e">>
          \/ ac = <<"f","u","l","l","-","n","a","m","e">>
       THEN "name"
  ELSE IF \/ includes(ac, <<"g","i","v","e","n","-","n","a","m","e">>)
          \/ ac = <<"f","n","a","m","e">>
       THEN "firstName"
  ELSE IF \/ includes(ac, <<"f","a","m","i","l","y","-","n","a","m","e">>)
          \/ ac = <<"l","n","a","m","e">>
       THEN "lastName"
  ELSE IF \/ includes(ac, <<"a","d","d","r","e","s","s","-","l","i","n","e">>)
          \/ ac = <<"s","t","r","e","e","t","-","a","d","d","r","e","s","s">>
       THEN "address"
  ELSE IF includes(ac, <<"a","d","d","r","e","s","s","-","l","e","v","e","l","2">>)
       THEN "city"
  ELSE IF includes(ac, <<"a","d","d","r","e","s","s","-","l","e","v","e","l","1">>)
       THEN "state"
  ELSE IF includes(ac, <<"p","o","s","t","a","l","-","c","o","d","e">>)
       THEN "zip"
  ELSE IF includes(ac, <<"c","o","u","n","t","r","y">>)
       THEN "country"
  ELSE IF includes(ac, <<"o","r","g","a","n","i","z","a","t","i","o","n">>)
       THEN "company"
  ELSE IF includes(ac, <<"o","r","g","a","n","i","z","a","t","i","o","n","-","t","i","t","l","e">>)
       THEN "jobTitle"
  ELSE ""

inferFromKeywords(c) ==
  IF \/ includes(c, <<"e","m","a","i","l">>)
     \/ includes(c, <<"e","-","m","a","i","l">>)
       THEN "email"
  ELSE IF \/ includes(c, <<"p","h","o","n","e">>)
          \/ includes(c, <<"t","e","l">>)
          \/ includes(c, <<"m","o","b","i","l","e">>)
          \/ includes(c, <<"c","e","l","l">>)
       THEN "phone"
  ELSE IF \/ includes(c, <<"u","r","l">>)
          \/ includes(c, <<"w","e","b","s","i","t","e">>)
          \/ includes(c, <<"l","i","n","k">>)
       THEN "url"
  ELSE IF \/ includes(c, <<"d","a","t","e">>)
          \/ includes(c, <<"b","i","r","t","h">>)
          \/ includes(c, <<"d","o","b">>)
       THEN "date"
  ELSE IF \/ matchTwo(c, <<"f","i","r","s","t">>, <<"n","a","m","e">>)
          \/ matchWord(c, <<"f","n","a","m","e">>)
          \/ matchTwo(c, <<"g","i","v","e","n">>, <<"n","a","m","e">>)
       THEN "firstName"
  ELSE IF \/ matchTwo(c, <<"l","a","s","t">>, <<"n","a","m","e">>)
          \/ matchWord(c, <<"l","n","a","m","e">>)
          \/ matchWord(c, <<"s","u","r","n","a","m","e">>)
          \/ matchTwo(c, <<"f","a","m","i","l","y">>, <<"n","a","m","e">>)
       THEN "lastName"
  ELSE IF /\ \/ matchTwo(c, <<"f","u","l","l">>, <<"n","a","m","e">>)
             \/ matchTwo(c, <<"y","o","u","r">>, <<"n","a","m","e">>)
             \/ matchWord(c, <<"n","a","m","e">>)
          /\ ~includes(c, <<"u","s","e","r">>)
       THEN "name"
  ELSE IF /\ \/ matchWord(c, <<"s","t","r","e","e","t">>)
             \/ matchTwo(c, <<"a","d","d","r","e","s","s">>, <<"l","i","n","e">>)
             \/ matchWord(c, <<"a","d","d","r","e","s","s">>)
          /\ ~includes(c, <<"e","m","a","i","l">>)
       THEN "address"
  ELSE IF \/ matchWord(c, <<"c","i","t","y">>)
          \/ matchWord(c, <<"t","o","w","n">>)
       THEN "city"
  ELSE IF \/ matchWord(c, <<"s","t","a","t","e">>)
          \/ matchWord(c, <<"p","r","o","v","i","n","c","e">>)
          \/ matchWord(c, <<"r","e","g","i","o","n">>)
       THEN "state"
  ELSE IF \/ matchWord(c, <<"z","i","p">>)
          \/ matchTwo(c, <<"p","o","s","t","a","l">>, <<"c","o","d","e">>)
          \/ matchWord(c, <<"p","o","s","t","c","o","d","e">>)
       THEN "zip"
  ELSE IF \/ matchWord(c, <<"c","o","u","n","t","r","y">>)
          \/ matchWord(c, <<"n","a","t","i","o","n">>)
       THEN "country"
  ELSE IF \/ matchWord(c, <<"c","o","m","p","a","n","y">>)
          \/ matchWord(c, <<"o","r","g","a","n","i","z","a","t","i","o","n">>)
          \/ matchWord(c, <<"e","m","p","l","o","y","e","r">>)
       THEN "company"
  ELSE IF /\ \/ matchTwo(c, <<"j","o","b">>, <<"t","i","t","l","e">>)
             \/ matchWord(c, <<"p","o","s","i","t","i","o","n">>)
             \/ matchWord(c, <<"r","o","l","e">>)
             \/ matchWord(c, <<"t","i","t","l","e">>)
          /\ ~includes(c, <<"p","a","g","e">>)
       THEN "jobTitle"
  ELSE "text"

\* a variant of detectFieldType that consults the autocomplete attribute
\* before the type attribute
detectFieldTypeAutocompleteFirst(element) ==
  LET e    == document[element]
      type == e.type
      ac   == toLowerCase(strOf(e.autocomplete))
      byAc == IF ac # <<>> THEN inferFromAutocomplete(ac) ELSE ""
      combined ==
        toLowerCase(strOf(e.name)) \o <<" ">> \o toLowerCase(strOf(e.id))
          \o <<" ">> \o toLowerCase(strOf(e.placeholder)) \o <<" ">>
          \o toLowerCase(extractLabel(element))
  IN  IF e.tag = "TEXTAREA" THEN "textarea"
      ELSE IF e.tag = "SELECT" THEN "select"
      ELSE IF byAc # "" THEN byAc
      ELSE IF type = "tel" THEN "phone"
      ELSE IF type \in {"email", "number", "date", "url", "password",
                        "checkbox", "radio", "file"} THEN type
      ELSE inferFromKeywords(combined)

detectFieldType(element) ==
  LET e    == document[element]
      type == e.type
      ac   == toLowerCase(strOf(e.autocomplete))
      byAc == IF ac # <<>> THEN inferFromAutocomplete(ac) ELSE ""
      combined ==
        toLowerCase(strOf(e.name)) \o <<" ">> \o toLowerCase(strOf(e.id))
          \o <<" ">> \o toLowerCase(strOf(e.placeholder)) \o <<" ">>
          \o toLowerCase(extractLabel(element))
  IN  IF e.tag = "TEXTAREA" THEN "textarea"
      ELSE IF e.tag = "SELECT" THEN "select"
      ELSE IF type = "tel" THEN "phone"
      ELSE IF type \in {"email", "number", "date", "url", "password",
                        "checkbox", "radio", "file"} THEN type
      ELSE IF byAc # "" THEN byAc
      ELSE inferFromKeywords(combined)

(***************************************************************************)
(* detectForms                                                             *)
(***************************************************************************)
\* the option elements of a select, in order
optionsOf(sel) ==
  inOrder({n \in Nodes : document[n].tag = "OPTION" /\ isDescendant(n, sel)})

\* HTMLOptionElement.value: the value attribute, else the text
optionValue(o) == IF document[o].optValue # Null THEN document[o].optValue ELSE textContent(o)

\* the value property of a native control
domValue(n) ==
  IF document[n].tag = "SELECT"
  THEN IF selectedIndex[n] >= 0 /\ selectedIndex[n] < Len(optionsOf(n))
       THEN optionValue(optionsOf(n)[selectedIndex[n] + 1]) ELSE <<>>
  ELSE value[n]

getFieldValue(element) ==
  IF document[element].tag = "SELECT"
  THEN IF selectedIndex[element] >= 0
          /\ selectedIndex[element] < Len(optionsOf(element))
       THEN textContent(optionsOf(element)[selectedIndex[element] + 1])
       ELSE <<>>
  ELSE IF document[element].type \in {"checkbox", "radio"}
       THEN IF checked[element] THEN <<"c","h","e","c","k","e","d">> ELSE <<>>
  ELSE value[element]

\* the decimal digits of a natural number
RECURSIVE toDigits(_)
toDigits(n) ==
  IF n < 10 THEN <<Digits[n + 1]>>
  ELSE toDigits(n \div 10) \o <<Digits[(n % 10) + 1]>>

\* createFormField / createAria...Field returning null
NoField ==
  [element |-> -1, type |-> "", label |-> <<>>, placeholder |-> Null,
   required |-> FALSE, value |-> <<>>, id |-> <<>>, isAria |-> FALSE,
   ariaElements |-> <<>>, options |-> <<>>]

createFormField(element, index) ==
  LET e == document[element]
  IN  IF e.type = "hidden" \/ e.disabled \/ e.display = "none" THEN NoField
      ELSE [element |-> element,
            type |-> detectFieldType(element),
            label |-> extractLabel(element),
            placeholder |-> IF Truthy(e.placeholder) THEN e.placeholder ELSE Null,
            required |-> e.required \/ e.ariaRequired = "true",
            value |-> getFieldValue(element),
            id |-> OrElse(e.id, <<"h","i","y","a","-","f","i","e","l","d","-">>
                                  \o toDigits(index)),
            isAria |-> FALSE, ariaElements |-> <<>>, options |-> <<>>]

isSpan(n) == document[n].tag = "SPAN"

\* the option text createAria...Field computes: aria-label, else the first
\* span's text, else the element's text
optionTextAtScan(el) ==
  LET firstSpan == querySelector(el, isSpan)
  IN  IF Truthy(document[el].ariaLabel) THEN document[el].ariaLabel
      ELSE OrElse(IF firstSpan = 0 THEN Null ELSE trim(textContent(firstSpan)),
                  trim(textContent(el)))

\* a variant of hasVisibleElement that asks every member to be visible
hasOnlyVisibleElements(elements) ==
  \A i \in 1..Len(elements) :
     /\ computedDisplay(elements[i]) # "none"
     /\ computedVisibility(elements[i]) # "hidden"
     /\ hasOffsetParent(elements[i])

hasVisibleElement(elements) ==
  \E i \in 1..Len(elements) :
     /\ computedDisplay(elements[i]) # "none"
     /\ computedVisibility(elements[i]) # "hidden"
     /\ hasOffsetParent(elements[i])

\* the label of an ARIA group read from its radiogroup / group container
groupLabel(container, fallback) ==
  LET google == extractGoogleFormsLabelForGroup(container)
      byEl   == IF Truthy(document[container].ariaLabelledby)
                THEN getElementById(document[container].ariaLabelledby) ELSE 0
  IN  IF Truthy(google) THEN google
      ELSE IF document[container].ariaLabel # Null
           THEN OrElse(document[container].ariaLabel, fallback)
      ELSE IF document[container].ariaLabelledby # Null
           THEN IF byEl = 0 THEN fallback
                ELSE OrElse(trim(textContent(byEl)), fallback)
      ELSE fallback

isChecked(el) == ariaChecked[el] = "true"

UnlabeledRadioGroup ==
  <<"U","n","l","a","b","e","l","e","d"," ","r","a","d","i","o"," ",
    "g","r","o","u","p">>
UnlabeledCheckboxGroup ==
  <<"U","n","l","a","b","e","l","e","d"," ","c","h","e","c","k","b","o","x",
    " ","g","r","o","u","p">>

createAriaRadioField(elements, index) ==
  LET isRadiogroup(n) == document[n].role = "radiogroup"
      radioGroup == closest(elements[1], isRadiogroup)
      google     == extractGoogleFormsLabelForGroup(elements[1])
      synth      == <<"h","i","y","a","-","a","r","i","a","-","r","a","d","i",
                      "o","-">> \o toDigits(index)
      checkedEls == SelectSeq(elements, isChecked)
  IN  IF ~hasVisibleElement(elements) THEN NoField
      ELSE [element |-> IF radioGroup # 0 THEN radioGroup ELSE elements[1],
            type |-> "radio",
            label |-> IF radioGroup # 0
                      THEN groupLabel(radioGroup, UnlabeledRadioGroup)
                      ELSE IF Truthy(google) THEN google
                      ELSE UnlabeledRadioGroup,
            placeholder |-> Null,
            required |-> radioGroup # 0 /\ document[radioGroup].ariaRequired = "true",
            value |-> IF checkedEls = <<>> THEN <<>>
                      ELSE optionTextAtScan(checkedEls[1]),
            id |-> IF radioGroup # 0 THEN OrElse(document[radioGroup].id, synth)
                   ELSE synth,
            isAria |-> TRUE,
            ariaElements |-> elements,
            options |-> mapSeq(optionTextAtScan, elements)]

createAriaCheckboxField(elements, index) ==
  LET isGroup(n) == document[n].role = "group"
      group      == closest(elements[1], isGroup)
      \* group.parentElement: the group is in the document, so it has one
      \* (0 is document.body)
      outer      == IF group = 0 THEN 0 ELSE document[group].parent
      google     == extractGoogleFormsLabelForGroup(elements[1])
      synth      == <<"h","i","y","a","-","a","r","i","a","-","c","h","e","c",
                      "k","b","o","x","-">> \o toDigits(index)
      checkedEls == SelectSeq(elements, isChecked)
  IN  IF ~hasVisibleElement(elements) THEN NoField
      ELSE [element |-> IF group = 0 THEN elements[1] ELSE outer,
            type |-> "checkbox",
            label |-> IF group # 0
                      THEN groupLabel(group, UnlabeledCheckboxGroup)
                      ELSE IF Truthy(google) THEN google
                      ELSE UnlabeledCheckboxGroup,
            placeholder |-> Null,
            required |-> group # 0 /\ document[group].ariaRequired = "true",
            value |-> join(mapSeq(optionTextAtScan, checkedEls), <<",", " ">>),
            id |-> IF group # 0 THEN OrElse(document[group].id, synth) ELSE synth,
            isAria |-> TRUE,
            ariaElements |-> elements,
            options |-> mapSeq(optionTextAtScan, elements)]

isOverlay(n) == document[n].id = OverlayId
inOverlay(n) == closest(n, isOverlay) # 0

RECURSIVE uniq(_)
uniq(xs) ==
  IF xs = <<>> THEN <<>>
  ELSE LET r == uniq(SubSeq(xs, 1, Len(xs) - 1))
       IN  IF xs[Len(xs)] \in Range(r) THEN r ELSE Append(r, xs[Len(xs)])

\* the number a property key stands for when it is a canonical array index,
\* else -1
RECURSIVE digitsValue(_)
digitsValue(k) ==
  IF k = <<>> THEN 0
  ELSE 10 * digitsValue(SubSeq(k, 1, Len(k) - 1)) + indexOf(Digits, k[Len(k)]) - 1

arrayIndex(k) ==
  IF /\ k # <<>> /\ \A i \in 1..Len(k) : k[i] \in Range(Digits)
     /\ (Len(k) = 1 \/ k[1] # "0")
  THEN digitsValue(k) ELSE -1

RECURSIVE sortKeys(_)
sortKeys(S) ==
  IF S = {} THEN <<>>
  ELSE LET m == CHOOSE x \in S : \A y \in S : arrayIndex(x) <= arrayIndex(y)
       IN  <<m>> \o sortKeys(S \ {m})

\* Object.values(groups) of the groups built by pushing each element under
\* keyOf(element): array-index keys first, ascending, then first-encounter order
groupsByKey(elements, keyOf(_)) ==
  LET keys     == uniq(mapSeq(keyOf, elements))
      isIdx(k) == arrayIndex(k) >= 0
      notIdx(k) == arrayIndex(k) < 0
      ordered  == sortKeys(Range(SelectSeq(keys, isIdx))) \o SelectSeq(keys, notIdx)
      groupOf(k) == LET has(e) == keyOf(e) = k IN SelectSeq(elements, has)
  IN  mapSeq(groupOf, ordered)

radioGroupKey(element) ==
  IF className(element) # <<>> THEN className(element) ELSE <<"default-group">>

checkboxGroupKey(element) ==
  LET isGroup(n) == document[n].role = "group"
      groupParent == closest(element, isGroup)
  IN  IF groupParent # 0 /\ Truthy(document[groupParent].id) THEN document[groupParent].id
      ELSE IF groupParent # 0 /\ className(groupParent) # <<>>
           THEN className(groupParent)
      ELSE IF className(element) # <<>> THEN className(element)
      ELSE <<"default-checkbox-group">>

isField(f) == f.element # -1

\* the fields the successive createAriaRadioField(group, index) calls push:
\* a group without a visible member gives null, is not pushed and does not
\* advance index
ariaRadioFields(groups, index) ==
  LET pushed == SelectSeq(groups, hasVisibleElement)
  IN  [k \in 1..Len(pushed) |-> createAriaRadioField(pushed[k], index + k - 1)]

\* likewise for createAriaCheckboxField
ariaCheckboxFields(groups, index) ==
  LET pushed == SelectSeq(groups, hasVisibleElement)
  IN  [k \in 1..Len(pushed) |->
         createAriaCheckboxField(pushed[k], index + k - 1)]

\* this.fields after the three loops of detectForms over the input elements,
\* the radio groups and the checkbox groups
pushedFields(inputElements, radioGroups, checkboxGroups) ==
  SelectSeq([i \in 1..Len(inputElements) |->
               createFormField(inputElements[i], i - 1)], isField)
    \o ariaRadioFields(radioGroups, 0)
    \o ariaCheckboxFields(checkboxGroups,
                          Len(SelectSeq(radioGroups, hasVisibleElement)))

detectedFields ==
  LET native(n)   == isNativeTag(n) /\ ~inOverlay(n)
      radio(n)    == document[n].role = "radio" /\ ~inOverlay(n)
      checkbox(n) == document[n].role = "checkbox" /\ ~inOverlay(n)
  IN  pushedFields(querySelectorAll(native),
                   groupsByKey(querySelectorAll(radio), radioGroupKey),
                   groupsByKey(querySelectorAll(checkbox), checkboxGroupKey))

isRequired(f) == f.required
hasCachedValue(f) == trim(f.value) # <<>>

\* the FormInfo detectForms returns for a field list
formInfo(fs) ==
  LET isForm(n) == document[n].tag = "FORM"
      forms == querySelectorAll(isForm)
  IN  [formElement |-> IF forms = <<>> THEN 0 ELSE forms[1],
       totalFields |-> Len(fs),
       requiredFields |-> Len(SelectSeq(fs, isRequired)),
       filledFields |-> Len(SelectSeq(fs, hasCachedValue))]

(***************************************************************************)
(* Navigation, fill and state queries                                      *)
(***************************************************************************)
\* the strings fillCurrentField is called with: an option of both ARIA
\* groups, an option whose element carries more text than its first span,
\* blank text, and a comma-separated list
FillValues ==
  { <<"S">>, <<"L">>, <<" ">>, <<"S", ",", " ", "L">> }

\* the longest runs explored: calls of fillCurrentField, page mutations
MaxFills == 1
MaxMutations == 1

NoRet == [kind |-> "none", val |-> 0]
NullRet == [kind |-> "null", val |-> 0]
Threw == [kind |-> "throw", val |-> 0]
FieldRet(i) == [kind |-> "field", val |-> i]
BoolRet(b) == [kind |-> "bool", val |-> b]

Call(name, arg) == [name |-> name, arg |-> arg]

\* the detector constructed on the page as it loads
detectorInit ==
  /\ document = Page
  /\ detached = {}
  /\ value = [n \in NativeNodes \ SelectNodes |->
                IF document[n].type \in {"checkbox", "radio"} THEN <<"o", "n">>
                ELSE <<>>]
  /\ checked = [n \in NativeNodes |-> n \in Prechecked]
  /\ selectedIndex = [n \in SelectNodes |-> IF optionsOf(n) = <<>> THEN -1 ELSE 0]
  /\ ariaChecked = [n \in AriaNodes |-> IF n \in Preselected THEN "true"
                                         ELSE "false"]
  /\ classList = [n \in 0..Len(document) |-> IF n = 0 THEN <<>> ELSE document[n].cls]
  /\ fields = <<>>
  /\ currentFieldIndex = -1
  /\ focusTarget = -1
  /\ styleInjected = FALSE
  /\ fills = 0
  /\ mutations = 0
  /\ events = <<>>
  /\ op = Call("new", 0)
  /\ ret = NoRet

Init == detectorInit /\ scriptInit

\* the field at a 0-based index of the list
fieldAt(i) == fields[i + 1]

\* a variant of DetectForms that resets the cursor when the new list no
\* longer holds it
DetectFormsResettingCursor ==
  /\ handler' = ""
  /\ stale' = FALSE
  /\ UNCHANGED <<isExtensionEnabled, location, lastUrl, records, popstate,
                 urlChanges, overlayVars, voiceVars>>
  /\ fields' = detectedFields
  /\ ret' = [kind |-> "info", val |-> formInfo(fields')]
  /\ op' = Call("detectForms", 0)
  /\ events' = <<>>
  /\ currentFieldIndex' =
       IF currentFieldIndex >= Len(fields') THEN -1 ELSE currentFieldIndex
  /\ UNCHANGED <<domVars, focusTarget, styleInjected, counters>>

\* detectForms() as it acts on the detector and the page
detectForms ==
  /\ fields' = detectedFields
  /\ ret' = [kind |-> "info", val |-> formInfo(fields')]
  /\ op' = Call("detectForms", 0)
  /\ events' = <<>>
  /\ UNCHANGED <<domVars, currentFieldIndex, focusTarget, styleInjected, counters>>

DetectForms ==
  /\ detectForms
  /\ handler' = ""
  /\ stale' = FALSE
  /\ UNCHANGED <<isExtensionEnabled, location, lastUrl, records, popstate,
                 urlChanges, overlayVars, voiceVars>>

\* a variant of getCurrentField without the upper bound: a cursor past the
\* end is clamped to the last field
getCurrentFieldNoUpperBound ==
  IF currentFieldIndex < 0 \/ Len(fields) = 0 THEN -1
  ELSE IF currentFieldIndex >= Len(fields) THEN Len(fields) - 1
  ELSE currentFieldIndex

getCurrentField ==
  IF currentFieldIndex < 0 \/ currentFieldIndex >= Len(fields) THEN -1
  ELSE currentFieldIndex

\* the nodes highlightField takes the highlight class from
fieldNodes(fs) ==
  UNION {{fs[i].element} \cup Range(fs[i].ariaElements) : i \in 1..Len(fs)}

unhighlighted(cl) ==
  LET keep(t) == t # HIGHLIGHT_CLASS
  IN  [n \in DOMAIN cl |->
         IF n \in fieldNodes(fields) THEN SelectSeq(cl[n], keep) ELSE cl[n]]

\* highlightField(field) for the field at index i; an index outside the list
\* passes undefined, and reading undefined.isAria throws after the removal loop
highlightField(i) ==
  IF i < 0 \/ i >= Len(fields)
  THEN /\ classList' = unhighlighted(classList)
       /\ UNCHANGED <<focusTarget, styleInjected>>
  ELSE /\ classList' =
            classListAdd(unhighlighted(classList), fieldAt(i).element,
                         HIGHLIGHT_CLASS)
       /\ focusTarget' = fieldAt(i).element
       /\ styleInjected' = TRUE

\* the tail shared by the operations that move the cursor to index i
moveTo(i) ==
  /\ currentFieldIndex' = i
  /\ highlightField(i)
  /\ ret' = IF i < 0 \/ i >= Len(fields) THEN Threw ELSE FieldRet(i)

\* (currentFieldIndex + 1) % fields.length, for a cursor c and a length n
nextIndex(c, n) == (c + 1) % n

\* the early return of nextField
nextFieldEmpty == Len(fields) = 0

\* nextField() as it acts on the detector and the page
nextField ==
  /\ op' = Call("nextField", 0)
  /\ events' = <<>>
  /\ UNCHANGED <<document, detached, value, checked, selectedIndex,
                 ariaChecked, fields, counters>>
  /\ IF nextFieldEmpty
     THEN /\ ret' = NullRet
          /\ UNCHANGED <<currentFieldIndex, classList, focusTarget,
                         styleInjected>>
     ELSE moveTo(nextIndex(currentFieldIndex, Len(fields)))

NextField == nextField /\ direct

\* a variant of previousIndex that stops at the first field instead of
\* wrapping to the last
previousIndexNoWrap(c, n) == IF c <= 0 THEN 0 ELSE c - 1

\* the cursor previousField moves to, for a cursor c and a length n
previousIndex(c, n) == IF c <= 0 THEN n - 1 ELSE c - 1

\* a variant of previousFieldEmpty for a previousField without the early
\* return
previousFieldNeverEmpty == FALSE

\* the early return of previousField
previousFieldEmpty == Len(fields) = 0

\* previousField() as it acts on the detector and the page
previousField ==
  /\ op' = Call("previousField", 0)
  /\ events' = <<>>
  /\ UNCHANGED <<document, detached, value, checked, selectedIndex,
                 ariaChecked, fields, counters>>
  /\ IF previousFieldEmpty
     THEN /\ ret' = NullRet
          /\ UNCHANGED <<currentFieldIndex, classList, focusTarget,
                         styleInjected>>
     ELSE moveTo(previousIndex(currentFieldIndex, Len(fields)))

PreviousField == previousField /\ direct

\* a variant of goToFieldInRange with an off-by-one upper bound
goToFieldInRangeInclusive(index) == ~(index < 0 \/ index > Len(fields))

goToFieldInRange(index) == ~(index < 0 \/ index >= Len(fields))

GoToField(index) ==
  /\ direct
  /\ op' = Call("goToField", index)
  /\ events' = <<>>
  /\ UNCHANGED <<document, detached, value, checked, selectedIndex,
                 ariaChecked, fields, counters>>
  /\ IF ~goToFieldInRange(index)
     THEN /\ ret' = NullRet
          /\ UNCHANGED <<currentFieldIndex, classList, focusTarget,
                         styleInjected>>
     ELSE moveTo(index)

\* 'value' in f.element
hasValueProperty(n) == n > 0 /\ isNativeTag(n)

\* a variant of isFilled that does not trim the value
isFilledUntrimmed(f) ==
  IF f.isAria THEN f.value # <<>>
  ELSE IF hasValueProperty(f.element)
       THEN IF f.type \in {"checkbox", "radio"} THEN checked[f.element]
            ELSE domValue(f.element) # <<>>
  ELSE FALSE

\* a variant of isFilled that reads every field from the stored value, as the
\* filledFields count of detectForms does
isFilledFromCache(f) == trim(f.value) # <<>>

\* a variant of isFilled that reads an ARIA field from the aria-checked
\* attributes of its members instead of the stored value
isFilledFromAttributes(f) ==
  IF f.isAria
  THEN \E i \in 1..Len(f.ariaElements) : ariaChecked[f.ariaElements[i]] = "true"
  ELSE IF hasValueProperty(f.element)
       THEN IF f.type \in {"checkbox", "radio"} THEN checked[f.element]
            ELSE trim(domValue(f.element)) # <<>>
  ELSE FALSE

\* the filter of getFormState
isFilled(f) ==
  IF f.isAria THEN trim(f.value) # <<>>
  ELSE IF hasValueProperty(f.element)
       THEN IF f.type \in {"checkbox", "radio"} THEN checked[f.element]
            ELSE trim(domValue(f.element)) # <<>>
  ELSE FALSE

\* a variant of isUnfilledRequired that does not trim the value
isUnfilledRequiredUntrimmed(f) ==
  IF ~f.required THEN FALSE
  ELSE IF f.isAria THEN f.value = <<>>
  ELSE IF hasValueProperty(f.element)
       THEN IF f.type \in {"checkbox", "radio"} THEN ~checked[f.element]
            ELSE domValue(f.element) = <<>>
  ELSE TRUE

\* the filter of getUnfilledRequiredFields
isUnfilledRequired(f) ==
  IF ~f.required THEN FALSE
  ELSE IF f.isAria THEN trim(f.value) = <<>>
  ELSE IF hasValueProperty(f.element)
       THEN IF f.type \in {"checkbox", "radio"} THEN ~checked[f.element]
            ELSE trim(domValue(f.element)) = <<>>
  ELSE TRUE

\* The percentage is computed in IEEE 754 doubles: the quotient
\* filledFields / totalFields is rounded to 53 significant bits, its product
\* with 100 is rounded again, and Math.round takes floor(x + 0.5) of the
\* result.  A positive double below 256 is the record [e, digits] of value
\* digits * 2^(-52 - e), digits a number of five digits in base 2^13, most
\* significant first, the last four below the base.
Limb == 2 ^ 13

\* d + 1
RECURSIVE increment(_)
increment(d) ==
  IF Len(d) = 1 \/ d[Len(d)] + 1 < Limb THEN [d EXCEPT ![Len(d)] = @ + 1]
  ELSE increment(SubSeq(d, 1, Len(d) - 1)) \o <<0>>

\* d * 100 + c, exactly
RECURSIVE timesHundred(_, _)
timesHundred(d, c) ==
  IF Len(d) = 1 THEN << d[1] * 100 + c >>
  ELSE timesHundred(SubSeq(d, 1, Len(d) - 1), (d[Len(d)] * 100 + c) \div Limb)
         \o << (d[Len(d)] * 100 + c) % Limb >>

\* the least e with a * 2^e >= b, for 0 < a < b
RECURSIVE exponentOf(_, _)
exponentOf(a, b) == IF 2 * a >= b THEN 1 ELSE 1 + exponentOf(2 * a, b)

\* a / b for 0 < a < b: 52 fraction bits by long division, the rest rounded
\* to nearest, ties to even
divide(a, b) ==
  LET e  == exponentOf(a, b)
      r0 == a * 2 ^ e - b
      L1 == (r0 * Limb) \div b
      r1 == (r0 * Limb) % b
      L2 == (r1 * Limb) \div b
      r2 == (r1 * Limb) % b
      L3 == (r2 * Limb) \div b
      r3 == (r2 * Limb) % b
      L4 == (r3 * Limb) \div b
      r4 == (r3 * Limb) % b
      up == 2 * r4 > b \/ (2 * r4 = b /\ L4 % 2 = 1)
  IN  [e |-> e,
       digits |-> IF up THEN increment(<<1, L1, L2, L3, L4>>)
                  ELSE <<1, L1, L2, L3, L4>>]

\* q * 100 for a quotient of divide: the exact product has 59 or 60 bits,
\* the 6 or 7 beyond a double's 53 are rounded to nearest, ties to even
multiplyByHundred(q) ==
  LET p    == timesHundred(q.digits, 0)
      s    == IF p[1] < 128 THEN 6 ELSE 7
      low  == p[5] % 2 ^ s
      kept == p[5] - low
      up   == 2 * low > 2 ^ s \/ (2 * low = 2 ^ s /\ (p[5] \div 2 ^ s) % 2 = 1)
  IN  [e |-> q.e,
       digits |-> IF ~up THEN [p EXCEPT ![5] = kept]
                  ELSE IF kept + 2 ^ s < Limb THEN [p EXCEPT ![5] = kept + 2 ^ s]
                  ELSE increment(SubSeq(p, 1, 4)) \o <<0>>]

\* Math.round(x) = floor(x + 0.5): the integer part of x is digits[1] / 2^e,
\* and the leading bit of digits[2] says whether the rest reaches 2^(-e-1)
MathRound(x) ==
  (2 * x.digits[1] + 2 ^ x.e + (IF x.digits[2] >= Limb \div 2 THEN 1 ELSE 0))
    \div 2 ^ (x.e + 1)

\* Math.round((a / b) * 100) for 0 <= a <= b, b > 0; the quotient and the
\* product are each one double, bound as a value before the next operation
\* reads it
roundPercent(a, b) ==
  IF a = 0 THEN 0
  ELSE IF a = b THEN 100
  ELSE LET quotient == {divide(m, n) : m \in {a}, n \in {b}}
           product  == {multiplyByHundred(q) : q \in quotient}
       IN  CHOOSE r \in {MathRound(x) : x \in product} : TRUE

getFormState ==
  LET totalFields  == Len(fields)
      filledFields == Len(SelectSeq(fields, isFilled))
      requiredFields == Len(SelectSeq(fields, isRequired))
      reqFilled(f) == f.required /\ isFilled(f)
      requiredFilledFields == Len(SelectSeq(fields, reqFilled))
  IN  [totalFields |-> totalFields,
       filledFields |-> filledFields,
       requiredFields |-> requiredFields,
       requiredFilledFields |-> requiredFilledFields,
       completionPercentage |->
         IF totalFields > 0 THEN roundPercent(filledFields, totalFields) ELSE 0,
       isComplete |-> IF requiredFields > 0
                      THEN requiredFilledFields = requiredFields
                      ELSE filledFields = totalFields]

\* the 0-based indexes of the fields getUnfilledRequiredFields returns
\* a variant of getUnfilledRequiredFields that leaves the ARIA groups out
getUnfilledRequiredNativeFields ==
  LET unfilled(i) == ~fieldAt(i).isAria /\ isUnfilledRequired(fieldAt(i))
  IN  SelectSeq([i \in 1..Len(fields) |-> i - 1], unfilled)

getUnfilledRequiredFields ==
  LET unfilled(i) == isUnfilledRequired(fieldAt(i))
  IN  SelectSeq([i \in 1..Len(fields) |-> i - 1], unfilled)

\* goToFirstUnfilledRequired() as it acts on the detector and the page
goToFirstUnfilledRequired ==
  /\ op' = Call("goToFirstUnfilledRequired", 0)
  /\ events' = <<>>
  /\ UNCHANGED <<document, detached, value, checked, selectedIndex,
                 ariaChecked, fields, counters>>
  /\ IF getUnfilledRequiredFields = <<>>
     THEN /\ ret' = NullRet
          /\ UNCHANGED <<currentFieldIndex, classList, focusTarget,
                         styleInjected>>
     ELSE moveTo(getUnfilledRequiredFields[1])

GoToFirstUnfilledRequired == goToFirstUnfilledRequired /\ direct

\* the option text fillCurrentField compares the value with
optionLabel(el) == OrElse(document[el].ariaLabel, trim(textContent(el)))

\* the members a fill of an ARIA group checks
radioMatches(el, v) == optionLabel(el) = v

checkboxMatches(el, v) ==
  LET checkedItems == mapSeq(trim, split(v, ","))
  IN  optionLabel(el) \in Range(checkedItems)

VISUAL_CLASS == "N2RpBe"

\* the value sanitization of the value setter of an input element
stripNewlines(x) == LET keep(c) == c \notin {"\n", "\r"} IN SelectSeq(x, keep)

sanitized(n, x) ==
  IF document[n].tag # "INPUT" THEN x
  ELSE IF document[n].type \in {"text", "search", "tel", "url", "password"}
       THEN stripNewlines(x)
  ELSE IF document[n].type = "email" THEN trim(stripNewlines(x))
  ELSE x

\* selectedIndex after select.value = x: the first option with that value
selectIndexFor(n, x) ==
  LET opts == optionsOf(n)
      hit(i) == optionValue(opts[i]) = x
      hits == SelectSeq([i \in 1..Len(opts) |-> i], hit)
  IN  IF hits = <<>> THEN -1 ELSE hits[1] - 1

fillEvents(n) ==
  << [target |-> n, type |-> "input", bubbles |-> TRUE],
     [target |-> n, type |-> "change", bubbles |-> TRUE] >>

\* the members fillCurrentField marks checked in an ARIA field
fillMatches(f, el, v) ==
  IF f.type = "radio" THEN radioMatches(el, v)
  ELSE IF f.type = "checkbox" THEN checkboxMatches(el, v)
  ELSE FALSE

fillTouches(f) == f.isAria /\ f.type \in {"radio", "checkbox"}

\* fillCurrentField(v) as it acts on the detector and the page
fillCurrentField(v) ==
  /\ fills < MaxFills
  /\ fills' = fills + 1
  /\ op' = Call("fillCurrentField", v)
  /\ UNCHANGED <<document, detached, checked, currentFieldIndex, focusTarget, styleInjected,
                 mutations>>
  /\ IF getCurrentField = -1
     THEN /\ ret' = BoolRet(FALSE)
          /\ events' = <<>>
          /\ UNCHANGED <<value, selectedIndex, ariaChecked, classList, fields>>
     ELSE LET f == fieldAt(getCurrentField)
              members == IF fillTouches(f) THEN Range(f.ariaElements) ELSE {}
          IN  /\ ariaChecked' =
                   [n \in DOMAIN ariaChecked |->
                      IF n \in members
                      THEN IF fillMatches(f, n, v) THEN "true" ELSE "false"
                      ELSE ariaChecked[n]]
              /\ classList' =
                   [n \in DOMAIN classList |->
                      IF n \in members
                      THEN IF fillMatches(f, n, v)
                           THEN classListAdd(classList, n, VISUAL_CLASS)[n]
                           ELSE classListRemove(classList, n, VISUAL_CLASS)[n]
                      ELSE classList[n]]
              /\ value' =
                   IF ~f.isAria /\ document[f.element].tag # "SELECT"
                   THEN [value EXCEPT ![f.element] = sanitized(f.element, v)]
                   ELSE value
              /\ selectedIndex' =
                   IF ~f.isAria /\ document[f.element].tag = "SELECT"
                   THEN [selectedIndex EXCEPT
                           ![f.element] = selectIndexFor(f.element, v)]
                   ELSE selectedIndex
              /\ fields' = [fields EXCEPT ![getCurrentField + 1].value = v]
              /\ events' = fillEvents(f.element)
              /\ ret' = BoolRet(TRUE)

FillCurrentField(v) == fillCurrentField(v) /\ direct

\* the read-only accessors, called together as the content script does when
\* it reports the state: getFields, getCurrentField, getCurrentFieldIndex,
\* getFormState and getUnfilledRequiredFields
Query ==
  /\ direct
  /\ op' = Call("query", 0)
  /\ ret' = [kind |-> "query",
             val |-> [getFields |-> fields,
                      getCurrentField |-> getCurrentField,
                      getCurrentFieldIndex |-> currentFieldIndex,
                      getFormState |-> getFormState,
                      getUnfilledRequiredFields |-> getUnfilledRequiredFields]]
  /\ events' = <<>>
  /\ UNCHANGED <<domVars, fields, currentFieldIndex, focusTarget, styleInjected,
                 counters>>

\* a page script attaches or detaches one of the removable subtrees
PageToggle(n) ==
  /\ handler' = ""
  /\ records' = TRUE
  /\ UNCHANGED <<isExtensionEnabled, location, lastUrl, popstate, stale,
                 urlChanges, overlayVars, voiceVars>>
  /\ mutations < MaxMutations
  /\ mutations' = mutations + 1
  /\ UNCHANGED document
  /\ detached' = IF n \in detached THEN detached \ {n} ELSE detached \cup {n}
  /\ op' = Call("pageToggle", n)
  /\ ret' = NoRet
  /\ events' = <<>>
  /\ UNCHANGED <<value, checked, selectedIndex, ariaChecked, classList, fields,
                 currentFieldIndex, focusTarget, styleInjected, fills>>

\* the user clicks a native checkbox or radio button
PageClick(n) ==
  /\ direct
  /\ document[n].type \in {"checkbox", "radio"}
  /\ inDocument(n)
  /\ mutations < MaxMutations
  /\ mutations' = mutations + 1
  /\ checked' = [checked EXCEPT ![n] = ~@]
  /\ op' = Call("pageClick", n)
  /\ ret' = NoRet
  /\ events' = <<>>
  /\ UNCHANGED <<document, detached, value, selectedIndex, ariaChecked, classList, fields,
                 currentFieldIndex, focusTarget, styleInjected, fills>>

\* what the user types into a text input of the page
TypedValues == { <<"Z">> }

\* the user types into a native text input of the page
PageInput(n, v) ==
  /\ direct
  /\ document[n].tag = "INPUT" /\ document[n].type = "text"
  /\ inDocument(n) /\ ~inOverlay(n)
  /\ value[n] # v
  /\ mutations < MaxMutations
  /\ mutations' = mutations + 1
  /\ value' = [value EXCEPT ![n] = v]
  /\ op' = Call("pageInput", n)
  /\ ret' = NoRet
  /\ events' = <<>>
  /\ UNCHANGED <<document, detached, checked, selectedIndex, ariaChecked,
                 classList, fields, currentFieldIndex, focusTarget,
                 styleInjected, fills>>

\* a script of the page sets the aria-checked attribute of a role="radio" or
\* role="checkbox" element
PageSetAriaChecked(n) ==
  /\ direct
  /\ inDocument(n)
  /\ mutations < MaxMutations
  /\ mutations' = mutations + 1
  /\ ariaChecked' =
       [ariaChecked EXCEPT ![n] = IF @ = "true" THEN "false" ELSE "true"]
  /\ op' = Call("pageSetAriaChecked", n)
  /\ ret' = NoRet
  /\ events' = <<>>
  /\ UNCHANGED <<document, detached, value, checked, selectedIndex,
                 classList, fields, currentFieldIndex, focusTarget,
                 styleInjected, fills>>

Next ==
  \/ DetectForms
  \/ NextField
  \/ PreviousField
  \/ \E i \in -1..(Len(fields) + 1) : GoToField(i)
  \/ GoToFirstUnfilledRequired
  \/ \E v \in FillValues : FillCurrentField(v)
  \/ Query
  \/ \E n \in Removable : PageToggle(n)
  \/ \E n \in NativeNodes : PageClick(n)

Spec == Init /\ [][Next]_vars

\* the detector on a page whose user types into its inputs and whose scripts
\* set aria-checked between the calls
NextWithScripts ==
  \/ DetectForms
  \/ NextField
  \/ \E v \in FillValues : FillCurrentField(v)
  \/ Query
  \/ \E n \in NativeNodes : \E v \in TypedValues : PageInput(n, v)
  \/ \E n \in AriaNodes : PageSetAriaChecked(n)

ScriptSpec == Init /\ [][NextWithScripts]_vars

\* The pages the scan is applied to as a function of the document.
\* A page of ARIA controls: a checkbox outside any group, two radios under a
\* container that is a radiogroup or a plain div, a third radio under a
\* radiogroup of its own, and a text input last in the document.  The class
\* attributes of the radios and the inline display of the third are inputs.
GroupPage(g, x, y, z, d) ==
  << [Node0 EXCEPT !.role = "checkbox", !.cls = <<"k">>, !.ariaLabel = <<"C">>],
     [Node0 EXCEPT !.role = g, !.ariaLabel = <<"A">>],
     [Node0 EXCEPT !.parent = 2, !.role = "radio", !.cls = x,
                   !.ariaLabel = <<"S">>],
     [Node0 EXCEPT !.parent = 2, !.role = "radio", !.cls = y,
                   !.ariaLabel = <<"L">>],
     [Node0 EXCEPT !.role = "radiogroup", !.ariaLabel = <<"B">>],
     [Node0 EXCEPT !.parent = 5, !.role = "radio", !.cls = z,
                   !.ariaLabel = <<"M">>, !.display = d],
     [Node0 EXCEPT !.tag = "INPUT", !.type = "text", !.name = <<"q">>] >>

\* the class attributes tried: none, and two that read as array indexes
GroupClasses == { <<>>, <<"1">>, <<"2">> }

GroupPages ==
  { GroupPage(g, x, y, z, d) :
      g \in {"radiogroup", ""}, x \in GroupClasses, y \in GroupClasses,
      z \in GroupClasses, d \in {"", "none"} }

\* the id of the container that the overlay component with the phrase form
\* injects
ClaraOverlayId == <<"c","l","a","r","a","-","o","v","e","r","l","a","y","-",
                    "c","o","n","t","a","i","n","e","r">>

\* the ids under which the overlay components inject their container
InjectedOverlayIds == {OverlayId, ClaraOverlayId}

\* A page with one text input, and the overlay appended to document.body
\* under the container id given: its phrase-name input and phrase-content
\* textarea.
OverlayPage(id) ==
  << [Node0 EXCEPT !.tag = "INPUT", !.type = "text", !.name = <<"q">>],
     [Node0 EXCEPT !.id = id],
     [Node0 EXCEPT !.tag = "INPUT", !.parent = 2, !.type = "text",
                   !.placeholder = <<"P">>],
     [Node0 EXCEPT !.tag = "TEXTAREA", !.parent = 2, !.type = "textarea",
                   !.placeholder = <<"C">>] >>

OverlayPages == { OverlayPage(id) : id \in InjectedOverlayIds }

\* A page with a native control whose tag, type, disabled flag, inline
\* display and style-sheet display are inputs, and a plain text input.
ControlPage(tag, type, disabled, display, cssDisplay) ==
  << [Node0 EXCEPT !.tag = tag, !.type = type, !.disabled = disabled,
                   !.display = display, !.cssDisplay = cssDisplay,
                   !.name = <<"h">>],
     [Node0 EXCEPT !.tag = "INPUT", !.type = "text", !.name = <<"q">>] >>

\* the tags and type properties of the controls tried
ControlKinds ==
  { <<"INPUT", "text">>, <<"INPUT", "hidden">>, <<"TEXTAREA", "textarea">>,
    <<"SELECT", "select-one">> }

ControlPages ==
  { ControlPage(k[1], k[2], b, d, c) :
      k \in ControlKinds, b \in BOOLEAN, d \in {"", "none"},
      c \in {"", "none"} }

\* The label sources of extractLabel in the order it tries them: 1 the
\* framework heading, 2 label[for], 3 an ancestor label, 4 aria-label,
\* 5 aria-labelledby, 6 aria-describedby, 7 the preceding sibling, 8 a
\* heading among the preceding siblings, 9 the parent's data-label,
\* 10 placeholder, 11 title, 12 name.
LabelSources == 1..12

\* the text each source carries on the label pages
LabelTexts ==
  << <<"G","h">>, <<"L","f",":">>, <<"A","l">>, <<"A","r">>, <<"L","b">>,
     <<"D","s">>, <<"S","b">>, <<"H","d">>, <<"D","l">>, <<"P","h">>,
     <<"T","i">>, <<"n","_","m">> >>

\* texts that are not empty and clean to the empty string
BlankTexts == { <<"*">>, <<" ">> }

\* A page with one text input and the label sources in P around it; source
\* D, when it is one of P, carries the text w instead of its own.
LabelPage(P, D, w) ==
  LET raw(k) == IF k = D THEN w ELSE LabelTexts[k]
      txt(k) == IF k \in P THEN raw(k) ELSE <<>>
      att(k) == IF k \in P THEN raw(k) ELSE Null
  IN  << [Node0 EXCEPT !.jsmodel = (1 \in P)],
         [Node0 EXCEPT !.parent = 1, !.role = "heading"],
         Text(2, txt(1)),
         [Node0 EXCEPT !.tag = "LABEL",
                       !.htmlFor = IF 2 \in P THEN <<"e">> ELSE Null],
         Text(4, txt(2)),
         [Node0 EXCEPT !.parent = 1,
                       !.tag = IF 3 \in P THEN "LABEL" ELSE "DIV"],
         Text(6, txt(3)),
         [Node0 EXCEPT !.parent = 6, !.dataLabel = att(9)],
         [Node0 EXCEPT !.parent = 8, !.tag = IF 8 \in P THEN "H3" ELSE "P"],
         Text(9, txt(8)),
         [Node0 EXCEPT !.parent = 8, !.tag = IF 7 \in P THEN "SPAN" ELSE "P"],
         Text(11, txt(7)),
         [Node0 EXCEPT !.tag = "INPUT", !.parent = 8, !.type = "text",
                       !.id = <<"e">>, !.ariaLabel = att(4),
                       !.ariaLabelledby = IF 5 \in P THEN <<"b">> ELSE Null,
                       !.ariaDescribedby = IF 6 \in P THEN <<"d">> ELSE Null,
                       !.placeholder = att(10), !.title = att(11),
                       !.name = att(12)],
         [Node0 EXCEPT !.id = <<"b">>],
         Text(14, txt(5)),
         [Node0 EXCEPT !.id = <<"d">>],
         Text(16, txt(6)) >>

\* every set of sources with its own texts, and every source with a blank
\* text alone or beside one other source
LabelPages ==
  { LabelPage(P, 0, <<>>) : P \in SUBSET LabelSources }
    \cup { LabelPage({d, l}, d, w) :
             d \in LabelSources, l \in LabelSources, w \in BlankTexts }

\* A page with a single native control whose tag, type, autocomplete, name
\* and placeholder are inputs.
TypePage(tag, type, autocomplete, name, placeholder) ==
  << [Node0 EXCEPT !.tag = tag, !.type = type, !.autocomplete = autocomplete,
                   !.name = name, !.placeholder = placeholder] >>

\* the tags and type properties tried: the types detectFieldType maps
\* directly, and text
TypeKinds ==
  { <<"TEXTAREA", "textarea">>, <<"SELECT", "select-one">> }
    \cup { <<"INPUT", t>> :
             t \in {"text", "email", "tel", "number", "date", "url",
                    "password", "checkbox", "radio", "file"} }

\* the autocomplete attributes tried
TypeAutocompletes ==
  { Null,
    <<"g","i","v","e","n","-","n","a","m","e">>,
    <<"o","r","g","a","n","i","z","a","t","i","o","n">>,
    <<"o","r","g","a","n","i","z","a","t","i","o","n","-","t","i","t","l","e">>,
    <<"t","e","l">>,
    <<"c","o","u","n","t","r","y">>,
    <<"o","f","f">> }

\* the name attributes tried
TypeNames ==
  { Null,
    <<"c","o","m","p","a","n","y","_","n","a","m","e">>,
    <<"u","s","e","r","_","n","a","m","e">>,
    <<"e","m","a","i","l","_","a","d","d","r","e","s","s">>,
    <<"p","a","g","e","_","t","i","t","l","e">>,
    <<"s","t","r","e","e","t">>,
    <<"z","z">> }

\* the placeholder attributes tried
TypePlaceholders ==
  { Null,
    <<"Y","o","u","r"," ","e","m","a","i","l">>,
    <<"P","h","o","n","e">> }

TypePages ==
  { TypePage(k[1], k[2], a, n, h) :
      k \in TypeKinds, a \in TypeAutocompletes, n \in TypeNames,
      h \in TypePlaceholders }

\* a select of one option with the given value attribute and text, the
\* option selected as the browser selects the first option
SelectPage(v, t) ==
  << [Node0 EXCEPT !.tag = "SELECT", !.type = "select-one", !.name = <<"s">>],
     [Node0 EXCEPT !.tag = "OPTION", !.parent = 1, !.optValue = v],
     Text(2, t) >>

SelectPages ==
  { SelectPage(v, t) : v \in {Null, <<>>, <<"v">>}, t \in {<<"S">>, <<" ">>} }

\* a radiogroup with the given id attribute and two radios with the given
\* class attributes
ContainerPage(id, x, y) ==
  << [Node0 EXCEPT !.role = "radiogroup", !.id = id, !.ariaLabel = <<"A">>],
     [Node0 EXCEPT !.parent = 1, !.role = "radio", !.cls = x,
                   !.ariaLabel = <<"S">>],
     [Node0 EXCEPT !.parent = 1, !.role = "radio", !.cls = y,
                   !.ariaLabel = <<"L">>] >>

ContainerPages ==
  { ContainerPage(id, x, y) :
      id \in {Null, <<"g">>}, x \in GroupClasses, y \in GroupClasses }

ScanPages ==
  GroupPages \cup OverlayPages \cup ControlPages \cup LabelPages
    \cup TypePages \cup SelectPages \cup ContainerPages

\* the detector constructed on a page on which nothing is selected yet
ScanInit ==
  /\ document \in ScanPages
  /\ detached = {}
  /\ value = [n \in NativeNodes \ SelectNodes |->
                IF document[n].type \in {"checkbox", "radio"} THEN <<"o", "n">>
                ELSE <<>>]
  /\ checked = [n \in NativeNodes |-> FALSE]
  /\ selectedIndex = [n \in SelectNodes |-> IF optionsOf(n) = <<>> THEN -1 ELSE 0]
  /\ ariaChecked = [n \in AriaNodes |-> "false"]
  /\ classList = [n \in 0..Len(document) |-> IF n = 0 THEN <<>> ELSE document[n].cls]
  /\ fields = <<>>
  /\ currentFieldIndex = -1
  /\ focusTarget = -1
  /\ styleInjected = FALSE
  /\ fills = 0
  /\ mutations = 0
  /\ events = <<>>
  /\ op = Call("new", 0)
  /\ ret = NoRet
  /\ scriptInit

\* scans and cursor moves, the page left alone
ScanNext ==
  \/ DetectForms
  \/ NextField

ScanSpec == ScanInit /\ [][ScanNext]_vars

\* ---------------------------------------------------------------------
\* Forms of many fields, some of them filled

\* the largest of the form sizes tried in full
MaxForm == 40

\* a form large enough for the percentage to round up to 100
LargeForm == 200

\* a form of t checkboxes
CheckboxPage(t) ==
  [n \in 1..t |-> [Node0 EXCEPT !.tag = "INPUT", !.type = "checkbox",
                                !.ariaLabel = <<"C">>]]

\* the numbers of checked boxes tried on a form of t
CheckedCounts(t) == IF t <= MaxForm THEN 0..t ELSE {t - 1, t}

PercentInit ==
  /\ document \in { CheckboxPage(t) : t \in (0..MaxForm) \cup {LargeForm} }
  /\ detached = {}
  /\ value = [n \in NativeNodes |-> <<"o", "n">>]
  /\ checked \in { [n \in NativeNodes |-> n <= f] :
                     f \in CheckedCounts(Len(document)) }
  /\ selectedIndex = << >>
  /\ ariaChecked = << >>
  /\ classList = [n \in 0..Len(document) |-> <<>>]
  /\ fields = <<>>
  /\ currentFieldIndex = -1
  /\ focusTarget = -1
  /\ styleInjected = FALSE
  /\ fills = 0
  /\ mutations = 0
  /\ events = <<>>
  /\ op = Call("new", 0)
  /\ ret = NoRet
  /\ scriptInit

\* scans and reads of the statistics
PercentNext ==
  \/ DetectForms
  \/ Query

PercentSpec == PercentInit /\ [][PercentNext]_vars

\* ---------------------------------------------------------------------
\* Fills of native controls of several types

\* 1: an email input; 2: a select with the single option "S"; 5: a text
\* input
FillPage ==
  << [Node0 EXCEPT !.tag = "INPUT", !.type = "email", !.name = <<"m">>],
     [Node0 EXCEPT !.tag = "SELECT", !.type = "select-one", !.name = <<"s">>],
     [Node0 EXCEPT !.tag = "OPTION", !.parent = 2],
     Text(3, <<"S">>),
     [Node0 EXCEPT !.tag = "INPUT", !.type = "text", !.name = <<"t">>] >>

FillInit ==
  /\ document = FillPage
  /\ detached = {}
  /\ value = [n \in NativeNodes \ SelectNodes |-> <<>>]
  /\ checked = [n \in NativeNodes |-> FALSE]
  /\ selectedIndex = [n \in SelectNodes |-> 0]
  /\ ariaChecked = << >>
  /\ classList = [n \in 0..Len(document) |-> <<>>]
  /\ fields = <<>>
  /\ currentFieldIndex = -1
  /\ focusTarget = -1
  /\ styleInjected = FALSE
  /\ fills = 0
  /\ mutations = 0
  /\ events = <<>>
  /\ op = Call("new", 0)
  /\ ret = NoRet
  /\ scriptInit

\* scans, cursor moves and fills
FillNext ==
  \/ DetectForms
  \/ NextField
  \/ PreviousField
  \/ \E v \in FillValues : FillCurrentField(v)

FillSpec == FillInit /\ [][FillNext]_vars

\* ---------------------------------------------------------------------
\* The content script: URL watching, enabling, and the Ctrl+V shortcut

\* the longest run of URL changes explored
MaxUrlChanges == 2

\* refreshFormDetection(): a scan unless the extension is disabled
refreshFormDetection ==
  IF isExtensionEnabled
  THEN detectForms /\ stale' = FALSE
  ELSE UNCHANGED <<detectorVars, stale>>

\* the page changes its URL without a reload: history.pushState or a
\* traversal of the session history (back, forward); only a traversal fires
\* popstate, and neither touches the DOM
UrlChange(u, traversal) ==
  /\ urlChanges < MaxUrlChanges
  /\ urlChanges' = urlChanges + 1
  /\ u # location
  /\ location' = u
  /\ stale' = TRUE
  /\ popstate' = (popstate \/ traversal)
  /\ handler' = ""
  /\ UNCHANGED <<detectorVars, isExtensionEnabled, lastUrl, records,
                 overlayVars, voiceVars>>

\* the callback of the MutationObserver on the document
ObserverCallback ==
  /\ records
  /\ records' = FALSE
  /\ handler' = "observer"
  /\ UNCHANGED <<isExtensionEnabled, location, popstate, urlChanges,
                 overlayVars, voiceVars>>
  /\ IF location # lastUrl
     THEN lastUrl' = location /\ refreshFormDetection
     ELSE UNCHANGED <<lastUrl, stale, detectorVars>>

\* the popstate listener of the window
PopstateListener ==
  /\ popstate
  /\ popstate' = FALSE
  /\ handler' = "popstate"
  /\ UNCHANGED <<isExtensionEnabled, location, lastUrl, records, urlChanges,
                 overlayVars, voiceVars>>
  /\ refreshFormDetection

\* initializeExtension(): nothing when the overlay exists; else the overlay
\* is built and, on a loaded page, refreshFormDetection() scans (the caller
\* has found or set isExtensionEnabled true)
initializeExtension ==
  IF overlay THEN UNCHANGED <<overlay, detectorVars, stale>>
  ELSE /\ overlay' = TRUE
       /\ IF readyState = "complete" THEN detectForms /\ stale' = FALSE
          ELSE UNCHANGED <<detectorVars, stale>>

\* what a run of the message listener for a message of the given type
\* answered when it called sendResponse once: the success property, "true",
\* "false" or "undefined" when the response has none, and the error property
Response(type, success, error) ==
  [count |-> 1, type |-> type, success |-> success, error |-> error]

\* the cases ENABLE_EXTENSION (b true) and DISABLE_EXTENSION (b false) of
\* the message listener: enabling initializes, disabling destroys the
\* overlay; a change of the overlay changes the children of the body
setExtensionEnabled(b) ==
  /\ isExtensionEnabled' = b
  /\ handler' = "message"
  /\ switchedOff' = ~b
  /\ response' = Response(IF b THEN "ENABLE_EXTENSION" ELSE "DISABLE_EXTENSION",
                          "true", "")
  /\ IF b THEN initializeExtension
     ELSE overlay' = FALSE /\ UNCHANGED <<detectorVars, stale>>
  /\ records' = (records \/ overlay' # overlay)
  /\ UNCHANGED <<location, lastUrl, popstate, urlChanges, readyState, storage,
                 pendingGet, toggles, voiceVars>>

\* ENABLE_EXTENSION or DISABLE_EXTENSION from any sender
SetExtensionEnabled(b) == setExtensionEnabled(b) /\ UNCHANGED inbox

\* shouldUseVoiceInput(fieldType)
shouldUseVoiceInput(fieldType) ==
  fieldType \in { "text", "email", "phone", "number", "url", "textarea",
                  "name", "firstName", "lastName", "address", "city",
                  "state", "zip", "country", "company", "jobTitle" }

\* handleVoiceInputForField(field) up to its first await, for the field at
\* index i: a radio or checkbox field with options has them read out, a
\* text-like field waits for the beep, any other field ends the handler.
\* The handler keeps the field object: its index and its options.
voiceInputFor(i) ==
  LET field == fieldAt(i)
      task  == [field |-> i, options |-> field.options, pc |-> "announce",
                session |-> 0]
  IN  IF field.type \in {"radio", "checkbox"}
      THEN IF Len(field.options) > 0 THEN {task} ELSE {}
      ELSE IF shouldUseVoiceInput(field.type)
           THEN {[task EXCEPT !.options = <<>>]} ELSE {}

\* the part the three navigation handlers share after the detector call,
\* run by the handler h: a notification is appended to the body and the
\* label is spoken when a field came back, then voice input begins
announceField(h) ==
  /\ handler' = h
  /\ records' = (records \/ ret'.kind = "field")
  /\ tasks' = IF ret'.kind = "field" THEN tasks \cup voiceInputFor(ret'.val)
              ELSE tasks
  /\ UNCHANGED <<isExtensionEnabled, location, lastUrl, popstate, stale,
                 urlChanges, overlayVars, sessions, activeRecognition,
                 lastFill>>

\* handleNextField(), called by the handler h
handleNextField(h) == nextField /\ announceField(h)

\* handlePreviousField(), called by the handler h
handlePreviousField(h) == previousField /\ announceField(h)

\* handleJumpToUnfilled(), called by the handler h: it notifies also when
\* no field came back
handleJumpToUnfilled(h) ==
  /\ goToFirstUnfilledRequired
  /\ handler' = h
  /\ records' = TRUE
  /\ tasks' = IF ret'.kind = "field" THEN tasks \cup voiceInputFor(ret'.val)
              ELSE tasks
  /\ UNCHANGED <<isExtensionEnabled, location, lastUrl, popstate, stale,
                 urlChanges, overlayVars, sessions, activeRecognition,
                 lastFill>>

\* the overlay's next button
OverlayNextField ==
  /\ overlay
  /\ handleNextField("overlay")

\* the keydown listener for Ctrl+V or Cmd+V
KeydownCtrlV ==
  IF isExtensionEnabled /\ (currentFieldIndex = -1 \/ getCurrentField = -1)
  THEN handleNextField("keydown")
  ELSE handler' = "keydown" /\ UNCHANGED <<detectorVars, scriptVars>>

\* the overlay's previous and jump buttons
OverlayPreviousField ==
  /\ overlay
  /\ handlePreviousField("overlay")

OverlayJumpToUnfilled ==
  /\ overlay
  /\ handleJumpToUnfilled("overlay")

\* the keydown listener for ArrowRight and ArrowLeft
KeydownArrow(key) ==
  IF isExtensionEnabled /\ currentFieldIndex # -1
  THEN IF key = "ArrowRight" THEN handleNextField("keydown")
       ELSE handlePreviousField("keydown")
  ELSE handler' = "keydown" /\ UNCHANGED <<detectorVars, scriptVars>>

\* ---------------------------------------------------------------------
\* Voice input: speech recognition sessions and the handlers awaiting them

\* the most recognition sessions started in a run
MaxSessions == 2

\* what the recognizer hears: a text, a number, a number word, and an
\* insert command for a stored and for an unknown phrase
Transcripts ==
  { <<"S">>, <<"2">>, <<"o","n","e">>,
    <<"I","n","s","e","r","t"," ","l">>, <<"i","n","s","e","r","t"," ","z">> }

\* the insert phrases loaded from storage
insertPhrases == << [name |-> <<"l">>, content |-> <<"L">>] >>

\* the digits of the first match of /\d+/ in s, <<>> when there is none
RECURSIVE leadingDigits(_)
leadingDigits(s) ==
  IF s = <<>> \/ Head(s) \notin Range(Digits) THEN <<>>
  ELSE <<Head(s)>> \o leadingDigits(Tail(s))

RECURSIVE numberMatch(_)
numberMatch(s) ==
  IF s = <<>> THEN <<>>
  ELSE IF Head(s) \in Range(Digits) THEN leadingDigits(s)
  ELSE numberMatch(Tail(s))

\* the words of wordToNumber in the order of the object's keys
numberWords ==
  << <<"o","n","e">>, <<"t","w","o">>, <<"t","h","r","e","e">>,
     <<"f","o","u","r">>, <<"f","i","v","e">>, <<"s","i","x">>,
     <<"s","e","v","e","n">>, <<"e","i","g","h","t">>, <<"n","i","n","e">>,
     <<"t","e","n">> >>

\* selectedIndex of the option path: the number said minus one, -1 when the
\* transcript holds neither digits nor a number word
selectedOptionIndex(transcript) ==
  LET lowerTranscript == toLowerCase(transcript)
      said(w) == includes(lowerTranscript, w)
      heard == SelectSeq(numberWords, said)
  IN  IF numberMatch(transcript) # <<>>
      THEN digitsValue(numberMatch(transcript)) - 1
      ELSE IF heard # <<>> THEN indexOf(numberWords, heard[1]) - 1 ELSE -1

\* the phrase name of an insert command, Null when
\* transcript.toLowerCase() does not match /^insert\s+(.+)$/
insertMatch(transcript) ==
  LET lowerTranscript == toLowerCase(transcript)
  IN  IF /\ Len(lowerTranscript) >= 8
         /\ SubSeq(lowerTranscript, 1, 6) = <<"i","n","s","e","r","t">>
         /\ IsSpace(lowerTranscript[7])
         /\ "\n" \notin Range(lowerTranscript)
      THEN trim(SubSeq(lowerTranscript, 8, Len(lowerTranscript)))
      ELSE Null

\* findInsertPhrase(name): the content of the phrase, Null when not found
findInsertPhrase(name) ==
  LET normalizedName == trim(toLowerCase(name))
      named(p) == p.name = normalizedName
      found == SelectSeq(insertPhrases, named)
  IN  IF found = <<>> THEN Null ELSE found[1].content

\* what the handler of a task passes to fillCurrentField for a transcript,
\* Null when it fills nothing
fillValueFor(task, transcript) ==
  IF transcript = <<>> THEN Null
  ELSE IF task.options # <<>>
       THEN LET selectedIndex_ == selectedOptionIndex(transcript)
            IN  IF selectedIndex_ >= 0 /\ selectedIndex_ < Len(task.options)
                THEN task.options[selectedIndex_ + 1] ELSE Null
  ELSE IF insertMatch(transcript) # Null
       THEN findInsertPhrase(insertMatch(transcript))
  ELSE transcript

\* the handlers awaiting the promise of session s
awaiting(s) == {t \in tasks : t.pc = "listen" /\ t.session = s}

\* startSpeechRecognition(), reached by a handler after its announcements:
\* the active session is aborted and forgotten, a new session starts and
\* becomes the active one, and the listening notification is shown
StartSpeechRecognition(task) ==
  /\ task \in tasks
  /\ task.pc = "announce"
  /\ Len(sessions) < MaxSessions
  /\ sessions' =
       Append(IF activeRecognition # 0 /\ sessions[activeRecognition] = "running"
              THEN [sessions EXCEPT ![activeRecognition] = "aborted"]
              ELSE sessions, "running")
  /\ activeRecognition' = Len(sessions) + 1
  /\ tasks' = (tasks \ {task})
                \cup {[task EXCEPT !.pc = "listen", !.session = Len(sessions) + 1]}
  /\ handler' = "voice"
  /\ records' = TRUE
  /\ UNCHANGED <<detectorVars, isExtensionEnabled, location, lastUrl, popstate,
                 stale, urlChanges, overlayVars, lastFill>>

\* the handlers awaiting session s go on with a transcript: a value to fill
\* goes to fillCurrentField(), which fills the detector's current field
resumeWith(s, transcript) ==
  /\ tasks' = tasks \ awaiting(s)
  /\ IF \E t \in awaiting(s) : fillValueFor(t, transcript) # Null
     THEN LET t == CHOOSE t \in awaiting(s) : TRUE
          IN  /\ fillCurrentField(fillValueFor(t, transcript))
              /\ lastFill' = IF getCurrentField = -1 THEN lastFill
                             ELSE [meant |-> t.field, filled |-> getCurrentField]
     ELSE UNCHANGED <<detectorVars, lastFill>>

\* recognition.onresult of session s: activeRecognition is cleared and the
\* promise resolves with the transcript; the session then ends
RecognitionResult(s, transcript) ==
  /\ s \in 1..Len(sessions)
  /\ sessions[s] = "running"
  /\ sessions' = [sessions EXCEPT ![s] = "stopping"]
  /\ activeRecognition' = 0
  /\ resumeWith(s, transcript)
  /\ handler' = "voice"
  /\ records' = TRUE
  /\ UNCHANGED <<isExtensionEnabled, location, lastUrl, popstate, stale,
                 urlChanges, overlayVars>>

\* recognition.onerror of session s, also the error of an aborted session:
\* activeRecognition is cleared and the promise rejects, which the handler
\* catches with a notification
RecognitionError(s) ==
  /\ s \in 1..Len(sessions)
  /\ sessions[s] \in {"running", "aborted"}
  /\ sessions' = [sessions EXCEPT ![s] = "stopping"]
  /\ activeRecognition' = 0
  /\ tasks' = tasks \ awaiting(s)
  /\ handler' = "voice"
  /\ records' = (records \/ awaiting(s) # {})
  /\ UNCHANGED <<detectorVars, isExtensionEnabled, location, lastUrl, popstate,
                 stale, urlChanges, overlayVars, lastFill>>

\* recognition.onend of session s: activeRecognition is cleared and the
\* promise, when still pending, resolves with the empty string
RecognitionEnd(s) ==
  /\ s \in 1..Len(sessions)
  /\ sessions[s] \in {"running", "aborted", "stopping"}
  /\ sessions' = [sessions EXCEPT ![s] = "ended"]
  /\ activeRecognition' = 0
  /\ resumeWith(s, <<>>)
  /\ handler' = "voice"
  /\ UNCHANGED <<isExtensionEnabled, location, lastUrl, records, popstate,
                 stale, urlChanges, overlayVars>>

\* a page of two fields that take voice input: a required text input and a
\* radio group of two options
VoicePage ==
  << [Node0 EXCEPT !.tag = "INPUT", !.type = "text", !.name = <<"q">>,
                   !.required = TRUE],
     [Node0 EXCEPT !.role = "radiogroup", !.ariaLabel = <<"A">>],
     [Node0 EXCEPT !.parent = 2, !.role = "radio", !.ariaLabel = <<"S">>],
     [Node0 EXCEPT !.parent = 2, !.role = "radio", !.ariaLabel = <<"L">>] >>

VoiceInit ==
  /\ document = VoicePage
  /\ detached = {}
  /\ value = [n \in NativeNodes \ SelectNodes |-> <<>>]
  /\ checked = [n \in NativeNodes |-> FALSE]
  /\ selectedIndex = << >>
  /\ ariaChecked = [n \in AriaNodes |-> "false"]
  /\ classList = [n \in 0..Len(document) |-> <<>>]
  /\ fields = <<>>
  /\ currentFieldIndex = -1
  /\ focusTarget = -1
  /\ styleInjected = FALSE
  /\ fills = 0
  /\ mutations = 0
  /\ events = <<>>
  /\ op = Call("new", 0)
  /\ ret = NoRet
  /\ scriptInit

\* the navigation handlers and the recognizer, in every interleaving
VoiceNext ==
  \/ DetectForms
  \/ OverlayNextField
  \/ OverlayPreviousField
  \/ OverlayJumpToUnfilled
  \/ \E key \in {"ArrowRight", "ArrowLeft"} : KeydownArrow(key)
  \/ \E task \in tasks : StartSpeechRecognition(task)
  \/ \E s \in 1..MaxSessions, transcript \in Transcripts :
       RecognitionResult(s, transcript)
  \/ \E s \in 1..MaxSessions : RecognitionError(s)
  \/ \E s \in 1..MaxSessions : RecognitionEnd(s)
  \/ \E b \in BOOLEAN : SetExtensionEnabled(b)

VoiceSpec == VoiceInit /\ [][VoiceNext]_vars

\* ---------------------------------------------------------------------
\* The message listener

\* the message types the popup and the background worker send, and the
\* values FILL_FIELD carries
MessageTypes ==
  { "DETECT_FORMS", "NEXT_FIELD", "PREVIOUS_FIELD", "FILL_FIELD",
    "GET_FORM_STATE", "GOTO_UNFILLED", "TOGGLE_VOICE" }

\* what the cases of the listener leave alone
listenerFrame ==
  UNCHANGED <<isExtensionEnabled, location, lastUrl, popstate, urlChanges,
              overlay, readyState, storage, pendingGet, inbox, toggles,
              switchedOff, voiceVars>>

\* chrome.runtime.onMessage listener for a message of the given type, value
\* being payload.value of FILL_FIELD; a detector call that throws ends the
\* listener before sendResponse
OnMessage(type, v) ==
  /\ handler' = "message"
  /\ listenerFrame
  /\ \/ /\ type = "DETECT_FORMS"
        /\ detectForms
        /\ stale' = FALSE
        /\ response' = Response(type, "undefined", "")
        /\ UNCHANGED records
     \/ /\ type = "NEXT_FIELD"
        /\ nextField
        /\ records' = (records \/ ret'.kind = "field")
        /\ response' = IF ret'.kind = "field" THEN Response(type, "true", "")
                       ELSE Response(type, "false", "No fields found")
        /\ UNCHANGED stale
     \/ /\ type = "PREVIOUS_FIELD"
        /\ previousField
        /\ records' = (records \/ ret'.kind = "field")
        /\ response' =
             IF ret' = Threw THEN [NoResponse EXCEPT !.type = type]
             ELSE IF ret'.kind = "field" THEN Response(type, "true", "")
             ELSE Response(type, "false", "No fields found")
        /\ UNCHANGED stale
     \/ /\ type = "FILL_FIELD"
        /\ fillCurrentField(v)
        /\ records' = (records \/ ret'.val)
        /\ response' = Response(type, IF ret'.val THEN "true" ELSE "false", "")
        /\ UNCHANGED stale
     \/ /\ type = "GET_FORM_STATE"
        /\ response' = Response(type, "undefined", "")
        /\ UNCHANGED <<detectorVars, stale, records>>
     \/ /\ type = "GOTO_UNFILLED"
        /\ goToFirstUnfilledRequired
        /\ records' = TRUE
        /\ response' = Response(type, IF ret'.kind = "field" THEN "true"
                                      ELSE "false", "")
        /\ UNCHANGED stale
     \/ /\ type \notin { "DETECT_FORMS", "NEXT_FIELD", "PREVIOUS_FIELD",
                         "FILL_FIELD", "GET_FORM_STATE", "GOTO_UNFILLED",
                         "ENABLE_EXTENSION", "DISABLE_EXTENSION" }
        /\ response' = Response(type, "false", "Unknown message type")
        /\ UNCHANGED <<detectorVars, stale, records>>

\* a page of three fields: a required text input, and two checkboxes in a
\* section (node 4) of a form (node 3) that page scripts detach
MessagePage ==
  << [Node0 EXCEPT !.tag = "INPUT", !.type = "text", !.name = <<"q">>,
                   !.required = TRUE],
     Node0,
     [Node0 EXCEPT !.tag = "FORM"],
     [Node0 EXCEPT !.parent = 3],
     [Node0 EXCEPT !.tag = "INPUT", !.parent = 4, !.type = "checkbox",
                   !.name = <<"a">>],
     [Node0 EXCEPT !.tag = "INPUT", !.parent = 4, !.type = "checkbox",
                   !.name = <<"b">>] >>

\* the detector constructed on that page
messagePageInit ==
  /\ document = MessagePage
  /\ detached = {}
  /\ value = [n \in NativeNodes \ SelectNodes |->
                IF document[n].type \in {"checkbox", "radio"} THEN <<"o", "n">>
                ELSE <<>>]
  /\ checked = [n \in NativeNodes |-> FALSE]
  /\ selectedIndex = << >>
  /\ ariaChecked = << >>
  /\ classList = [n \in 0..Len(document) |-> <<>>]
  /\ fields = <<>>
  /\ currentFieldIndex = -1
  /\ focusTarget = -1
  /\ styleInjected = FALSE
  /\ fills = 0
  /\ mutations = 0
  /\ events = <<>>
  /\ op = Call("new", 0)
  /\ ret = NoRet

MessageInit == messagePageInit /\ scriptInit

\* the messages, the keyboard and the overlay's next button on a page that
\* changes, with the extension switched on and off
MessageNext ==
  \/ \E type \in MessageTypes, v \in {<<>>, <<"S">>} : OnMessage(type, v)
  \/ \E b \in BOOLEAN : SetExtensionEnabled(b)
  \/ KeydownCtrlV
  \/ \E key \in {"ArrowRight", "ArrowLeft"} : KeydownArrow(key)
  \/ OverlayNextField
  \/ \E n \in Removable : PageToggle(n)

MessageSpec == MessageInit /\ [][MessageNext]_vars

\* ---------------------------------------------------------------------
\* The start of the content script and the popup's switch

\* the most flips of the popup's switch in a run
MaxToggles == 2

\* what the start-up steps leave alone
startupFrame ==
  UNCHANGED <<location, lastUrl, popstate, urlChanges, inbox, toggles,
              switchedOff, response, voiceVars>>

\* chrome.storage.local.get reads the stored setting for the script
StorageRead ==
  /\ pendingGet = "issued"
  /\ pendingGet' = IF storage THEN "true" ELSE "false"
  /\ handler' = ""
  /\ UNCHANGED <<detectorVars, isExtensionEnabled, records, stale, overlay,
                 readyState, storage>>
  /\ startupFrame

\* the callback of chrome.storage.local.get with the setting that was read
StorageCallback ==
  /\ pendingGet \in {"true", "false"}
  /\ pendingGet' = "done"
  /\ isExtensionEnabled' = (pendingGet = "true")
  /\ IF pendingGet = "true" THEN initializeExtension
     ELSE UNCHANGED <<overlay, detectorVars, stale>>
  /\ records' = (records \/ overlay' # overlay)
  /\ handler' = "storage"
  /\ UNCHANGED <<readyState, storage>>
  /\ startupFrame

\* the page finishes loading and the load listener runs
LoadListener ==
  /\ readyState = "loading"
  /\ readyState' = "complete"
  /\ refreshFormDetection
  /\ handler' = "load"
  /\ UNCHANGED <<isExtensionEnabled, records, overlay, storage, pendingGet>>
  /\ startupFrame

\* the popup's switch is flipped: the setting is stored, then
\* ENABLE_EXTENSION or DISABLE_EXTENSION is sent to the tab
PopupToggle ==
  /\ toggles < MaxToggles
  /\ toggles' = toggles + 1
  /\ inbox = ""
  /\ storage' = ~storage
  /\ inbox' = IF storage THEN "DISABLE_EXTENSION" ELSE "ENABLE_EXTENSION"
  /\ handler' = ""
  /\ UNCHANGED <<detectorVars, isExtensionEnabled, location, lastUrl, records,
                 popstate, stale, urlChanges, overlay, readyState, pendingGet,
                 switchedOff, response, voiceVars>>

\* the popup's message reaches the message listener
PopupMessage ==
  /\ inbox # ""
  /\ inbox' = ""
  /\ setExtensionEnabled(inbox = "ENABLE_EXTENSION")

\* the script as it starts on a page that is still loading: no overlay, the
\* storage read issued, the stored setting either way
StartupInit ==
  /\ messagePageInit
  /\ scriptStart
  /\ overlay = FALSE
  /\ readyState = "loading"
  /\ storage \in BOOLEAN
  /\ pendingGet = "issued"

\* the start of the script, the switch and the shortcut in every order
StartupNext ==
  \/ StorageRead
  \/ StorageCallback
  \/ LoadListener
  \/ PopupToggle
  \/ PopupMessage
  \/ KeydownCtrlV

StartupSpec == StartupInit /\ [][StartupNext]_vars

\* a page script puts a detached subtree back
PageReattach(n) ==
  /\ n \in detached
  /\ detached' = detached \ {n}
  /\ op' = Call("pageReattach", n)
  /\ ret' = NoRet
  /\ events' = <<>>
  /\ handler' = ""
  /\ records' = TRUE
  /\ UNCHANGED <<document, value, checked, selectedIndex, ariaChecked,
                 classList, fields, currentFieldIndex, focusTarget,
                 styleInjected, counters, isExtensionEnabled, location,
                 lastUrl, popstate, stale, urlChanges, overlayVars, voiceVars>>

\* the shortcut and the overlay's button on a page that changes under them
ContentNext ==
  \/ DetectForms
  \/ OverlayNextField
  \/ KeydownCtrlV
  \/ \E n \in Removable : PageToggle(n)
  \/ \E n \in Removable : PageReattach(n)
  \/ ObserverCallback
  \/ \E b \in BOOLEAN : SetExtensionEnabled(b)

ContentSpec == Init /\ [][ContentNext]_vars

\* the URL watching on a page that changes its URL and its DOM
UrlNext ==
  \/ DetectForms
  \/ \E n \in Removable : PageToggle(n)
  \/ \E n \in Removable : PageReattach(n)
  \/ \E u \in 0..MaxUrlChanges, t \in BOOLEAN : UrlChange(u, t)
  \/ ObserverCallback
  \/ PopstateListener
  \/ \E b \in BOOLEAN : SetExtensionEnabled(b)

UrlSpec == Init /\ [][UrlNext]_vars

\* ---------------------------------------------------------------------
\* Properties of the cursor and of the operations that move it

\* C1: after any sequence of scans, navigation calls and fills interleaved
\* with page mutations, the cursor lies between -1 and the length of the
\* last-scanned list minus one.
C1_CursorInRange ==
  currentFieldIndex >= -1 /\ currentFieldIndex <= Len(fields) - 1

\* the condition under which fillCurrentField has no current field, stated
\* on the cursor and the list alone
noCurrentField == currentFieldIndex \notin 0..(Len(fields) - 1)

\* C2: fillCurrentField returns false whenever there is no current field
\* (the cursor is -1 or not an index of the list), and then changes no DOM
\* value, no aria-checked attribute and no cached value and dispatches no
\* event; in every other case it returns true.
C2_FillWithoutCurrentField ==
  [][op'.name = "fillCurrentField" =>
       IF noCurrentField
       THEN /\ ret' = BoolRet(FALSE)
            /\ UNCHANGED <<value, selectedIndex, checked, ariaChecked,
                           classList, fields>>
            /\ events' = <<>>
       ELSE ret' = BoolRet(TRUE)]_vars

\* a fill was refused because a rescan left the cursor past the end
C2_Witness ==
  /\ op.name = "fillCurrentField"
  /\ ret = BoolRet(FALSE)
  /\ currentFieldIndex >= Len(fields)
  /\ Len(fields) > 0

\* the cursor after k calls of nextField on a list of n fields
RECURSIVE nextTimes(_, _, _)
nextTimes(c, n, k) ==
  IF k = 0 THEN c ELSE nextTimes(nextIndex(c, n), n, k - 1)

\* the cursor after k calls of previousField on a list of n fields
RECURSIVE previousTimes(_, _, _)
previousTimes(c, n, k) ==
  IF k = 0 THEN c ELSE previousTimes(previousIndex(c, n), n, k - 1)

\* C3 as stated: with N >= 1 fields and no scan in between, from any cursor
\* c in [-1, N-1], N calls of nextField leave the cursor on c mod N, and so
\* do N calls of previousField.
C3_Original ==
  LET N == Len(fields)
      c == currentFieldIndex
  IN  (N >= 1 /\ c >= -1 /\ c <= N - 1) =>
        /\ nextTimes(c, N, N) = c % N
        /\ previousTimes(c, N, N) = c % N

\* C3: with N >= 1 fields and no scan in between, N calls of nextField
\* leave a cursor c in [-1, N-1] on c mod N (N-1 for c = -1); N calls of
\* previousField leave a cursor c in [0, N-1] on c, and leave the cursor -1
\* on index 0.
C3_Circularity ==
  LET N == Len(fields)
      c == currentFieldIndex
  IN  (N >= 1 /\ c >= -1 /\ c <= N - 1) =>
        /\ nextTimes(c, N, N) = c % N
        /\ c >= 0 => previousTimes(c, N, N) = c
        /\ c = -1 => previousTimes(c, N, N) = 0

\* previousField has just wrapped from the first field to the last of a
\* list of several fields
C3_Witness ==
  /\ op.name = "previousField"
  /\ Len(fields) >= 3
  /\ currentFieldIndex = Len(fields) - 1
  /\ ret = FieldRet(Len(fields) - 1)

\* C4: goToField(i) is bounds-checked: for i < 0 or i >= length it returns
\* null and leaves the cursor and the highlight unchanged; for 0 <= i < length
\* it sets the cursor to i and returns the field at index i.
C4_GoToFieldBoundsChecked ==
  [][op'.name = "goToField" =>
       LET i == op'.arg
       IN  IF i < 0 \/ i >= Len(fields)
           THEN /\ ret' = NullRet
                /\ UNCHANGED <<currentFieldIndex, classList>>
           ELSE /\ currentFieldIndex' = i
                /\ ret' = FieldRet(i)
                /\ fields' = fields]_vars

\* goToField was refused for the index one past the end while a field was
\* current
C4_Witness ==
  /\ op.name = "goToField"
  /\ op.arg = Len(fields)
  /\ ret = NullRet
  /\ Len(fields) > 0
  /\ currentFieldIndex \in 0..(Len(fields) - 1)

\* C5: when the last-scanned list is empty, nextField and previousField
\* return null and leave the cursor, the highlight class and the focus
\* unchanged, whatever the cursor value was.
C5_EmptyListNavigationIsNoOp ==
  [][(Len(fields) = 0 /\ op'.name \in {"nextField", "previousField"}) =>
       /\ ret' = NullRet
       /\ UNCHANGED <<currentFieldIndex, classList, focusTarget>>]_vars

\* previousField returned null on an empty list whose cursor a former list
\* had left on a field
C5_Witness ==
  /\ op.name = "previousField"
  /\ ret = NullRet
  /\ Len(fields) = 0
  /\ currentFieldIndex > 0

\* the operations that move the cursor
NavigationOps ==
  {"nextField", "previousField", "goToField", "goToFirstUnfilledRequired"}

\* C6: the cursor is changed only by nextField, previousField, goToField and
\* goToFirstUnfilledRequired; a scan, a fill and the read-only accessors
\* leave it as it was, so it is the same before and after every scan.
C6_CursorChangedOnlyByNavigation ==
  [][/\ currentFieldIndex' # currentFieldIndex => op'.name \in NavigationOps
     /\ op'.name \in {"detectForms", "fillCurrentField", "query"} =>
          currentFieldIndex' = currentFieldIndex]_vars

\* a scan has shrunk the list and left the cursor where it was, past the end
C6_Witness ==
  /\ op.name = "detectForms"
  /\ Len(fields) > 0
  /\ currentFieldIndex >= Len(fields)

\* the fill predicate: non-empty trimmed text for text-like kinds, the
\* checked state for a native checkbox or radio button, a non-empty trimmed
\* cached value for an ARIA field
satisfiesFillPredicate(f) ==
  CASE f.isAria -> trim(f.value) # <<>>
    [] ~f.isAria /\ f.type \in {"checkbox", "radio"} -> checked[f.element]
    [] OTHER -> trim(domValue(f.element)) # <<>>

\* the 0-based indexes of the required fields of the list
requiredIndexes == {i \in 0..(Len(fields) - 1) : fieldAt(i).required}

\* C7: getFormState().isComplete is true iff there is a required field and
\* every required field satisfies the fill predicate, or there is none and
\* every field satisfies it (true for an empty list); requiredFilledFields
\* is the number of required fields that satisfy it, so a form with a
\* required field left empty is never reported complete.
C7_IsComplete ==
  op.name = "query" =>
    LET state == ret.val.getFormState
        filled(i) == satisfiesFillPredicate(fieldAt(i))
    IN  /\ state.isComplete =
             IF requiredIndexes # {}
             THEN \A i \in requiredIndexes : filled(i)
             ELSE \A i \in 0..(Len(fields) - 1) : filled(i)
        /\ state.requiredFilledFields =
             Cardinality({i \in requiredIndexes : filled(i)})
        /\ (\E i \in requiredIndexes : ~filled(i)) => ~state.isComplete

\* a form with two required fields, one of them left blank, was reported
\* incomplete although all its other fields are filled
C7_Witness ==
  /\ op.name = "query"
  /\ Cardinality(requiredIndexes) = 2
  /\ ret.val.getFormState.requiredFilledFields = 1
  /\ ret.val.getFormState.filledFields = Len(fields) - 1
  /\ ~ret.val.getFormState.isComplete

\* the 0-based indexes of the required fields that do not satisfy the fill
\* predicate
unfilledRequiredIndexes ==
  {i \in requiredIndexes : ~satisfiesFillPredicate(fieldAt(i))}

\* C8: goToFirstUnfilledRequired returns the lowest-index field that is
\* required and does not satisfy the fill predicate, sets the cursor to that
\* index and highlights it; when there is none it returns null and leaves
\* the cursor and the highlight unchanged.
C8_GoToFirstUnfilledRequired ==
  [][op'.name = "goToFirstUnfilledRequired" =>
       IF unfilledRequiredIndexes = {}
       THEN /\ ret' = NullRet
            /\ UNCHANGED <<currentFieldIndex, classList>>
       ELSE LET m == CHOOSE i \in unfilledRequiredIndexes :
                       \A j \in unfilledRequiredIndexes : i <= j
            IN  /\ ret' = FieldRet(m)
                /\ currentFieldIndex' = m
                /\ HIGHLIGHT_CLASS \in Range(classList'[fieldAt(m).element])]_vars

\* goToFirstUnfilledRequired chose the first of two unfilled required fields
\* while another field was current
C8_Witness ==
  /\ op.name = "goToFirstUnfilledRequired"
  /\ Cardinality(unfilledRequiredIndexes) = 2
  /\ ret = FieldRet(0)
  /\ currentFieldIndex = 0
  /\ HIGHLIGHT_CLASS \in Range(classList[fieldAt(0).element])

\* the non-empty items of a comma-separated list, trimmed
commaSet(x) == Range(mapSeq(trim, split(x, ","))) \ {<<>>}

\* the option texts of the members of an ARIA field that are checked
checkedOptions(f) ==
  {f.options[i] : i \in {j \in 1..Len(f.options) :
                            ariaChecked[f.ariaElements[j]] = "true"}}

\* C9: after a successful fillCurrentField(x) the cached value of the
\* current field is x for a native text-like field and equals the live DOM
\* value; for a grouped ARIA checkbox field the comma-split, trimmed set of
\* the cached value equals the set of option texts of the members whose
\* aria-checked is "true", for every string x.
C9_FillRoundTrip ==
  (op.name = "fillCurrentField" /\ ret = BoolRet(TRUE)) =>
    LET f == fieldAt(currentFieldIndex)
    IN  /\ (~f.isAria /\ f.type \notin {"checkbox", "radio", "select", "file"}) =>
             /\ f.value = op.arg
             /\ f.value = domValue(f.element)
        /\ (f.isAria /\ f.type = "checkbox") =>
             commaSet(f.value) = checkedOptions(f)

\* C10: for an ARIA radio field that is the current field,
\* fillCurrentField(options[i]) leaves member i with aria-checked "true" and
\* every other member with aria-checked "false".
C10_RadioFillByOption ==
  (op.name = "fillCurrentField" /\ ret = BoolRet(TRUE)) =>
    LET f == fieldAt(currentFieldIndex)
    IN  (f.isAria /\ f.type = "radio") =>
          \A i \in 1..Len(f.options) :
            f.options[i] = op.arg =>
              \A j \in 1..Len(f.ariaElements) :
                ariaChecked[f.ariaElements[j]] =
                  IF j = i THEN "true" ELSE "false"

\* ---------------------------------------------------------------------
\* Properties of the completion counts

\* C11: a fillCurrentField call after which the current field satisfies its
\* fill predicate never decreases getFormState().filledFields or
\* getFormState().requiredFilledFields, and changes the fill state of no
\* other field.
C11_CompletionMonotonicity ==
  [][(/\ op'.name = "fillCurrentField"
      /\ ret' = BoolRet(TRUE)
      /\ satisfiesFillPredicate(fieldAt(currentFieldIndex))') =>
       /\ getFormState'.filledFields >= getFormState.filledFields
       /\ getFormState'.requiredFilledFields
            >= getFormState.requiredFilledFields
       /\ \A i \in 0..(Len(fields) - 1) :
            i # currentFieldIndex =>
              satisfiesFillPredicate(fieldAt(i))'
                = satisfiesFillPredicate(fieldAt(i))]_vars

\* a fill of the required text input, empty until then, has completed the
\* required fields
C11_Witness ==
  /\ op.name = "fillCurrentField"
  /\ ret = BoolRet(TRUE)
  /\ ~fieldAt(currentFieldIndex).isAria
  /\ fieldAt(currentFieldIndex).required
  /\ satisfiesFillPredicate(fieldAt(currentFieldIndex))
  /\ getFormState.requiredFilledFields = 2
  /\ getFormState.filledFields = Len(fields) - 1

\* the fill state of a field as the DOM shows it: text for a native control,
\* the checked property for a native checkbox or radio button, a member with
\* aria-checked "true" for an ARIA group
filledInDom(f) ==
  IF f.isAria
  THEN \E i \in 1..Len(f.ariaElements) : ariaChecked[f.ariaElements[i]] = "true"
  ELSE IF f.type \in {"checkbox", "radio"} THEN checked[f.element]
  ELSE trim(domValue(f.element)) # <<>>

\* the number of fields of the list that the DOM shows filled
filledInDomCount ==
  Cardinality({i \in 0..(Len(fields) - 1) : filledInDom(fieldAt(i))})

\* the fields of the list that are native and have node n as their element
nativeFieldsOn(n) ==
  {i \in 0..(Len(fields) - 1) : ~fieldAt(i).isAria /\ fieldAt(i).element = n}

\* every field is counted as filled exactly when the DOM shows it filled
countsMatchDom ==
  \A i \in 1..Len(fields) : isFilled(fields[i]) = filledInDom(fields[i])

kindRank(f) == IF ~f.isAria THEN 0 ELSE IF f.type = "radio" THEN 1 ELSE 2

\* the node at which document order first meets a field
firstNode(f) == IF f.isAria THEN f.ariaElements[1] ELSE f.element

\* C13: for a fixed DOM the field list of a scan is the native fields in
\* document order, then the ARIA radio groups in the order their group was
\* first met in document order, then the ARIA checkbox groups in that order;
\* no ARIA group precedes a native field and no checkbox group a radio group.
C13_OrderStability ==
  op.name = "detectForms" =>
    \A i \in 1..Len(fields) : \A j \in (i + 1)..Len(fields) :
      /\ kindRank(fields[i]) <= kindRank(fields[j])
      /\ kindRank(fields[i]) = kindRank(fields[j]) =>
           firstNode(fields[i]) < firstNode(fields[j])

\* what a scan reports of a field apart from its value
shape(f) ==
  [kind |-> f.type, label |-> f.label, isRequired |-> f.required,
   stableId |-> f.id, options |-> f.options]

\* C14: a scan is idempotent on an unchanged DOM: a scan that follows another
\* scan, with nothing in between but moves of the cursor, gives a list of the
\* same length with the same kind, label, isRequired, stableId and options at
\* every index.  (The steps of this specification between two scans are
\* nextField calls only.)
C14_ScanIdempotent ==
  [][(op'.name = "detectForms" /\ fields # <<>>) =>
       /\ Len(fields') = Len(fields)
       /\ \A i \in 1..Len(fields) : shape(fields'[i]) = shape(fields[i])]_vars

\* the node lies inside a container injected by an overlay component
inInjectedOverlay(n) ==
  \E k \in 1..Len(inclusiveAncestors(n)) :
     document[inclusiveAncestors(n)[k]].id \in InjectedOverlayIds

\* C15: no element inside the overlay container injected by the extension's
\* own overlay component, its phrase-name input and phrase-content textarea
\* included, is returned by a scan as a field or as a member of a field.
C15_SelfExclusion ==
  \A i \in 1..Len(fields) :
     /\ ~inInjectedOverlay(fields[i].element)
     /\ \A k \in 1..Len(fields[i].ariaElements) :
          ~inInjectedOverlay(fields[i].ariaElements[k])

\* the native control is hidden or disabled: type hidden, the disabled
\* property, or a display of none
hiddenOrDisabled(n) ==
  \/ document[n].type = "hidden"
  \/ document[n].disabled
  \/ computedDisplay(n) = "none"

\* the native controls that are the element of a field of the list
fieldControls == {fields[i].element : i \in {j \in 1..Len(fields) : ~fields[j].isAria}}

\* C16: a scan omits every native input, textarea and select that at scan
\* time has type hidden, is disabled or has display none, and omits no other
\* native control.
C16_HiddenDisabledExclusion ==
  op.name = "detectForms" =>
    \A n \in NativeNodes :
       inDocument(n) => (n \in fieldControls <=> ~hiddenOrDisabled(n))

\* the element is rendered: it has a display, is not hidden and has an
\* offset parent
isVisible(n) ==
  /\ computedDisplay(n) # "none"
  /\ computedVisibility(n) # "hidden"
  /\ hasOffsetParent(n)

\* the elements of a role that a scan looks at
scanned(role) ==
  {n \in Nodes : document[n].role = role /\ inDocument(n) /\ ~inOverlay(n)}

\* the ARIA groups of the page: the sets of radios with the same grouping
\* key, the sets of checkboxes with the same grouping key
radioGroupSets ==
  {{m \in scanned("radio") : radioGroupKey(m) = radioGroupKey(n)} :
     n \in scanned("radio")}
checkboxGroupSets ==
  {{m \in scanned("checkbox") : checkboxGroupKey(m) = checkboxGroupKey(n)} :
     n \in scanned("checkbox")}

\* the indexes of the ARIA fields of a kind whose members are the set G
fieldsOfGroup(kind, G) ==
  {i \in 1..Len(fields) : /\ fields[i].isAria /\ fields[i].type = kind
                          /\ Range(fields[i].ariaElements) = G}

\* the indexes of the fields that have node n as a member
fieldsWithMember(n) ==
  {i \in 1..Len(fields) : n \in Range(fields[i].ariaElements)}

radiogroupOf(n) ==
  LET isRadiogroup(a) == document[a].role = "radiogroup"
  IN  closest(n, isRadiogroup)

\* C18: radios are grouped by their nearest role="radiogroup" ancestor when
\* they have one: two radios under different radiogroup ancestors are never
\* in the same field, two radios under the same radiogroup ancestor are
\* always in the same field; radios without such an ancestor are grouped by
\* their class attribute, those without a class in one default bucket.
C18_RadioGroupingByAncestor ==
  op.name = "detectForms" =>
    \A n \in scanned("radio") : \A m \in scanned("radio") :
      LET together == fieldsWithMember(n) \cap fieldsWithMember(m) # {}
      IN  (fieldsWithMember(n) # {} /\ fieldsWithMember(m) # {}) =>
            /\ (radiogroupOf(n) # 0 /\ radiogroupOf(m) # 0) =>
                 (together <=> radiogroupOf(n) = radiogroupOf(m))
            /\ (radiogroupOf(n) = 0 /\ radiogroupOf(m) = 0) =>
                 (together <=> className(n) = className(m))

\* ---------------------------------------------------------------------
\* Properties of the labels

\* the document is one of the label pages
onLabelPage == Len(document) = 17

\* the text a label source offers on a label page, Null when the source is
\* absent
candidate(k) ==
  CASE k = 1 -> IF document[1].jsmodel THEN document[3].text ELSE Null
    [] k = 2 -> IF document[4].htmlFor = document[13].id
                THEN document[5].text ELSE Null
    [] k = 3 -> IF document[6].tag = "LABEL"
                THEN document[7].text \o document[10].text \o document[12].text
                ELSE Null
    [] k = 4 -> document[13].ariaLabel
    [] k = 5 -> IF document[13].ariaLabelledby # Null
                THEN document[15].text ELSE Null
    [] k = 6 -> IF document[13].ariaDescribedby # Null
                THEN document[17].text ELSE Null
    [] k = 7 -> IF document[11].tag = "SPAN" THEN document[12].text ELSE Null
    [] k = 8 -> IF document[9].tag = "H3" THEN document[10].text ELSE Null
    [] k = 9 -> document[8].dataLabel
    [] k = 10 -> document[13].placeholder
    [] k = 11 -> document[13].title
    [] k = 12 -> IF document[13].name = Null THEN Null
                 ELSE replaceSeparators(document[13].name)

\* the sources that yield a non-empty string after cleaning
yielding ==
  {k \in LabelSources : candidate(k) # Null /\ cleanLabel(candidate(k)) # <<>>}

\* the label the priority order gives: the cleaned text of the first source
\* that yields one, else the sentinel
labelByPriority ==
  IF yielding = {} THEN UnlabeledField
  ELSE cleanLabel(candidate(CHOOSE k \in yielding : \A j \in yielding : k <= j))

\* C19: every field of every snapshot has a non-empty label; when no label
\* source yields a non-empty string after cleaning, the label is "Unlabeled
\* field" for a native field, "Unlabeled radio group" or "Unlabeled checkbox
\* group" for a grouped ARIA field.
C19_LabelNonEmpty ==
  \A i \in 1..Len(fields) :
     /\ fields[i].label # <<>>
     /\ (onLabelPage /\ yielding = {}) => fields[i].label = UnlabeledField
     /\ (fields[i].isAria /\ fields[i].type = "radio"
           /\ radiogroupOf(fields[i].ariaElements[1]) = 0) =>
          fields[i].label = UnlabeledRadioGroup
     /\ (fields[i].isAria /\ fields[i].type = "checkbox"
           /\ fields[i].element = fields[i].ariaElements[1]) =>
          fields[i].label = UnlabeledCheckboxGroup

\* C20: the label of a native field is the cleaned text of the
\* highest-priority source that yields a non-empty match, in the order
\* framework heading, label[for], ancestor label, aria-label,
\* aria-labelledby, aria-describedby, preceding sibling, preceding heading,
\* parent data-label, placeholder, title, name, else "Unlabeled field"; a
\* lower source is used only when every higher one is absent or empty.
C20_LabelPriority ==
  (op.name = "detectForms" /\ onLabelPage) =>
     fields[1].label = labelByPriority

\* ---------------------------------------------------------------------
\* Properties of the type classification

\* the kind the tag and the type attribute map to directly, "" when they map
\* to none
directKind(n) ==
  IF document[n].tag = "TEXTAREA" THEN "textarea"
  ELSE IF document[n].tag = "SELECT" THEN "select"
  ELSE IF document[n].type = "tel" THEN "phone"
  ELSE IF document[n].type \in {"email", "number", "date", "url", "password",
                                "checkbox", "radio", "file"}
       THEN document[n].type
  ELSE ""

\* C21: the tag and the native type attribute have absolute priority: a
\* textarea is kind textarea, a select kind select, and an input of type
\* email, tel, number, date, url, password, checkbox, radio or file gets the
\* directly mapped kind (tel gives phone) whatever its autocomplete, name,
\* id, placeholder or label say.
C21_TypeAttributePriority ==
  \A i \in 1..Len(fields) :
     (~fields[i].isAria /\ directKind(fields[i].element) # "") =>
        fields[i].type = directKind(fields[i].element)

\* a scan has classified an input of type tel as phone although its
\* autocomplete names a given name, its name a company and its placeholder
\* an email
C21_Witness ==
  /\ op.name = "detectForms"
  /\ Len(fields) = 1
  /\ document[fields[1].element].type = "tel"
  /\ document[fields[1].element].autocomplete
       = <<"g","i","v","e","n","-","n","a","m","e">>
  /\ document[fields[1].element].name
       = <<"c","o","m","p","a","n","y","_","n","a","m","e">>
  /\ document[fields[1].element].placeholder # Null
  /\ fields[1].type = "phone"

\* the kind the autocomplete table gives a token, "" for a token outside it
autocompleteKind(ac) ==
  IF ac = <<"e","m","a","i","l">> THEN "email"
  ELSE IF ac = <<"t","e","l">> THEN "phone"
  ELSE IF ac \in { <<"n","a","m","e">>, <<"f","u","l","l","-","n","a","m","e">> }
       THEN "name"
  ELSE IF ac \in { <<"g","i","v","e","n","-","n","a","m","e">>,
                   <<"f","n","a","m","e">> } THEN "firstName"
  ELSE IF ac \in { <<"f","a","m","i","l","y","-","n","a","m","e">>,
                   <<"l","n","a","m","e">> } THEN "lastName"
  ELSE IF ac \in { <<"a","d","d","r","e","s","s","-","l","i","n","e","1">>,
                   <<"s","t","r","e","e","t","-","a","d","d","r","e","s","s">> }
       THEN "address"
  ELSE IF ac = <<"a","d","d","r","e","s","s","-","l","e","v","e","l","2">>
       THEN "city"
  ELSE IF ac = <<"a","d","d","r","e","s","s","-","l","e","v","e","l","1">>
       THEN "state"
  ELSE IF ac = <<"p","o","s","t","a","l","-","c","o","d","e">> THEN "zip"
  ELSE IF ac = <<"c","o","u","n","t","r","y">> THEN "country"
  ELSE IF ac = <<"o","r","g","a","n","i","z","a","t","i","o","n">>
       THEN "company"
  ELSE IF ac = <<"o","r","g","a","n","i","z","a","t","i","o","n","-",
                 "t","i","t","l","e">> THEN "jobTitle"
  ELSE ""

\* C22: for an input with no directly mapped type, a non-empty autocomplete
\* attribute decides the kind before any keyword matching, each token as the
\* table maps it (..., organization -> company, organization-title ->
\* jobTitle).
C22_AutocompleteTable ==
  \A i \in 1..Len(fields) :
     LET n  == fields[i].element
         ac == toLowerCase(strOf(document[n].autocomplete))
     IN  (~fields[i].isAria /\ directKind(n) = "" /\ autocompleteKind(ac) # "")
           => fields[i].type = autocompleteKind(ac)

\* the text the keyword fallback looks at: name, id, placeholder and the
\* resolved label, lowercased
keywordText(n) ==
  toLowerCase(strOf(document[n].name) \o <<" ">> \o strOf(document[n].id)
                \o <<" ">> \o strOf(document[n].placeholder) \o <<" ">>
                \o extractLabel(n))

\* the field was classified by the keyword fallback
byKeywords(i) ==
  /\ ~fields[i].isAria
  /\ directKind(fields[i].element) = ""
  /\ \/ strOf(document[fields[i].element].autocomplete) = <<>>
     \/ inferFromAutocomplete(
          toLowerCase(strOf(document[fields[i].element].autocomplete))) = ""

\* the field's element carries a name attribute and nothing else
onlyName(i, name) ==
  /\ document[fields[i].element].name = name
  /\ document[fields[i].element].tag = "INPUT"
  /\ document[fields[i].element].type = "text"
  /\ document[fields[i].element].autocomplete = Null
  /\ document[fields[i].element].placeholder = Null
  /\ Len(document) = 1

\* the rejections of the keyword fallback and its default
keywordRejections(i) ==
  /\ includes(keywordText(fields[i].element), <<"u","s","e","r">>)
       => fields[i].type # "name"
  /\ includes(keywordText(fields[i].element), <<"e","m","a","i","l">>)
       => fields[i].type # "address"
  /\ includes(keywordText(fields[i].element), <<"p","a","g","e">>)
       => fields[i].type # "jobTitle"
  /\ onlyName(i, <<"z","z">>) => fields[i].type = "text"

\* C23: in the keyword fallback the kind comes from the lowercased
\* combination of name, id, placeholder and resolved label: a text input
\* whose only attribute is name="company_name" is kind company, a name match
\* is rejected when the text contains "user", an address match when it
\* contains "email", a jobTitle match when it contains "page", and an input
\* matching no keyword set is kind text.
C23_KeywordFallback ==
  \A i \in 1..Len(fields) :
     byKeywords(i) =>
       /\ keywordRejections(i)
       /\ onlyName(i, <<"c","o","m","p","a","n","y","_","n","a","m","e">>)
            => fields[i].type = "company"

\* ---------------------------------------------------------------------
\* Properties of the completion percentage

\* p is 100 * a / b rounded to the nearest integer, a quotient halfway
\* between two integers to the larger one
isRounded(p, a, b) == 2 * b * p - b <= 200 * a /\ 200 * a < 2 * b * p + b

\* C24: completionPercentage equals round(100 * filledFields / totalFields)
\* when totalFields > 0 and 0 when totalFields is 0, totalFields being the
\* length of the last-scanned list; it is an integer in 0..100 and is 100
\* iff filledFields = totalFields > 0.
C24_CompletionPercentage ==
  LET s == getFormState
  IN  /\ s.totalFields = Len(fields)
      /\ s.totalFields = 0 => s.completionPercentage = 0
      /\ s.totalFields > 0 =>
           isRounded(s.completionPercentage, s.filledFields, s.totalFields)
      /\ s.completionPercentage \in 0..100
      /\ s.completionPercentage = 100
           <=> (s.filledFields = s.totalFields /\ s.totalFields > 0)

\* ---------------------------------------------------------------------
\* Properties of the field identifiers

\* the prefixes of the synthesized identifiers
IdPrefixes ==
  { <<"h","i","y","a","-","f","i","e","l","d","-">>,
    <<"h","i","y","a","-","a","r","i","a","-","r","a","d","i","o","-">>,
    <<"h","i","y","a","-","a","r","i","a","-","c","h","e","c","k","b","o","x","-">> }

\* C25: a field whose element has a native id uses that id; a field whose
\* element has none gets a synthesized id whose number is the field's
\* position in the combined list (native, radio groups, checkbox groups) of
\* the same scan.
C25_StableIdIndex ==
  \A i \in 1..Len(fields) :
     IF Truthy(document[fields[i].element].id)
     THEN fields[i].id = document[fields[i].element].id
     ELSE fields[i].id \in { p \o toDigits(i - 1) : p \in IdPrefixes }

\* ---------------------------------------------------------------------
\* Properties of the events of a fill

\* C26: on a successful fill of a native field the element's DOM value and
\* the field's cached value both equal the new value when the input event is
\* dispatched (the values are written before the events and nothing is
\* written after them); exactly one bubbling input event and one bubbling
\* change event are dispatched on the field's element, input first, both
\* before fillCurrentField returns.
C26_FillEvents ==
  (op.name = "fillCurrentField" /\ ret = BoolRet(TRUE)
     /\ ~fieldAt(currentFieldIndex).isAria) =>
    LET f == fieldAt(currentFieldIndex)
    IN  /\ domValue(f.element) = op.arg
        /\ f.value = op.arg
        /\ events = << [target |-> f.element, type |-> "input", bubbles |-> TRUE],
                       [target |-> f.element, type |-> "change", bubbles |-> TRUE] >>

\* ---------------------------------------------------------------------
\* Properties of the operations' results

\* C28: no detector operation raises an error in any reachable state: scan,
\* nextField, previousField, goToField, goToFirstUnfilledRequired,
\* fillCurrentField, getCurrentField and getFormState each complete and
\* return a field of the current list, null, a boolean or a record of
\* statistics, also when a scan has left the cursor beyond the end of the
\* list.
C28_NoOperationThrows ==
  /\ ret # Threw
  /\ ret.kind = "field" => ret.val \in 0..(Len(fields) - 1)

\* ---------------------------------------------------------------------
\* Properties of the content script

\* C27: whenever the URL changes without a reload while the extension is
\* enabled, a scan is eventually run again, triggered by the mutation
\* observer or the popstate listener, and the observer's remembered URL
\* equals the current URL once it has handled a change.  The two handlers are
\* the only parts of the script that scan after a URL change, and each runs
\* only when its event is queued: a URL change that awaits its scan with
\* neither event queued is never followed by a scan unless the page acts
\* again, so the rescan requires that one of them is queued.
C27_UrlChangeRescans ==
  /\ handler = "observer" => lastUrl = location
  /\ (stale /\ isExtensionEnabled) => (records \/ popstate)

\* ---------------------------------------------------------------------
\* Properties of the highlight

\* the nodes of the page that carry the highlight class
highlighted ==
  {n \in Nodes : inDocument(n) /\ HIGHLIGHT_CLASS \in Range(classList[n])}

\* C29: after every successful navigation operation the highlight class is
\* on the current field's primary node and on no other node of the page,
\* also not on the node of a field that was highlighted before a scan
\* dropped it from the list; in every reachable state at most one node
\* carries the class.
C29_SingleHighlight ==
  /\ Cardinality(highlighted) <= 1
  /\ (/\ op.name \in {"nextField", "previousField", "goToField",
                      "goToFirstUnfilledRequired"}
      /\ ret.kind = "field")
       => /\ HIGHLIGHT_CLASS
               \in Range(classList[fieldAt(currentFieldIndex).element])
          /\ highlighted \subseteq {fieldAt(currentFieldIndex).element}

\* ---------------------------------------------------------------------
\* Properties of the Ctrl+V shortcut

\* there is no current field: the cursor is -1 or getCurrentField() is null
noFieldIsCurrent == currentFieldIndex = -1 \/ getCurrentField = -1

\* C30: pressing Ctrl+V (or Cmd+V) while the extension is enabled and there
\* is no current field moves the cursor to the first field, index 0, of a
\* non-empty list, in every reachable state, also one where a scan shrank
\* the list below a previous cursor; pressing it while a current field
\* exists does not move the cursor.
C30_CtrlVStartsAtFirstField ==
  [][(handler' = "keydown" /\ isExtensionEnabled) =>
       IF noFieldIsCurrent
       THEN Len(fields) > 0 => currentFieldIndex' = 0
       ELSE currentFieldIndex' = currentFieldIndex]_vars

\* ---------------------------------------------------------------------
\* Properties of the counts

\* C36: immediately after detectForms() returns, the filledFields of the
\* information it returned (the fields whose trimmed stored value is not
\* empty) equals getFormState().filledFields, for every DOM, also for a
\* select whose selected option has a text and an empty value.
C36_ScanCountAgreesWithState ==
  op.name = "detectForms" => ret.val.filledFields = getFormState.filledFields

\* C37: in every reachable state getUnfilledRequiredFields() is a sub-list
\* of getFields() in the list's order, its length is requiredFields -
\* requiredFilledFields of getFormState(), requiredFilledFields <=
\* filledFields <= totalFields, and with requiredFields > 0 isComplete is
\* true exactly when goToFirstUnfilledRequired() would return null.
C37_RequiredViewsConsistent ==
  LET unfilled == getUnfilledRequiredFields
      state    == getFormState
  IN  /\ \A i \in 1..Len(unfilled) : unfilled[i] \in 0..(Len(fields) - 1)
      /\ \A i \in 1..(Len(unfilled) - 1) : unfilled[i] < unfilled[i + 1]
      /\ Len(unfilled) = state.requiredFields - state.requiredFilledFields
      /\ state.requiredFilledFields <= state.filledFields
      /\ state.filledFields <= state.totalFields
      /\ state.requiredFields > 0 => (state.isComplete <=> unfilled = <<>>)

\* the cursor jumped to an unfilled required field while another required
\* field is filled and a field that is not required is unfilled
C37_Witness ==
  /\ op.name = "goToFirstUnfilledRequired"
  /\ ret.kind = "field"
  /\ getFormState.requiredFilledFields > 0
  /\ getFormState.requiredFilledFields < getFormState.filledFields
       \/ getFormState.filledFields < getFormState.totalFields

\* ---------------------------------------------------------------------
\* Properties of the field identifiers

\* the id attributes present in the DOM are pairwise distinct
nativeIdsDistinct ==
  \A m, n \in Nodes :
    (m # n /\ document[m].id # Null /\ document[m].id = document[n].id)
      => document[m].id = <<>>

\* C38: the ids of the fields of one scan are pairwise distinct whenever the
\* id attributes present in the DOM are distinct: no two fields, native,
\* radio group or checkbox group, share an id, also two ARIA groups that
\* resolve to the same radiogroup or group container.
C38_StableIdsDistinct ==
  nativeIdsDistinct =>
    \A i, j \in 1..Len(fields) : i # j => fields[i].id # fields[j].id

\* ---------------------------------------------------------------------
\* Properties of voice input

\* C31: a recognized utterance, or the option chosen from a group's
\* options, is written only into the field the voice-input handler was
\* started for: under every interleaving of handleNextField,
\* handlePreviousField and handleJumpToUnfilled, the field a handler fills
\* is the field that handler navigated to, never one the cursor moved to
\* afterwards.
C31_FillsTheFieldNavigatedTo == lastFill.filled = lastFill.meant

\* the recognition sessions that are capturing speech
running == {s \in 1..Len(sessions) : sessions[s] = "running"}

\* C32: at most one speech recognition session runs at any time and
\* activeRecognition refers to it: starting a recognition aborts the active
\* one, and the late onend or onerror of an aborted or finished session
\* never clears activeRecognition while a newer session is running.
C32_OneActiveRecognition ==
  /\ Cardinality(running) <= 1
  /\ \A s \in running : activeRecognition = s

\* ---------------------------------------------------------------------
\* Properties of the message listener and of the switch

\* what a scan, a cursor movement or a fill changes
detectorState ==
  <<fields, currentFieldIndex, value, checked, selectedIndex, ariaChecked>>

\* C34: once DISABLE_EXTENSION has been handled and until ENABLE_EXTENSION
\* is handled, the content script performs no scan, no cursor movement and
\* no field fill: its triggers are ignored, the detector-command messages
\* (NEXT_FIELD, PREVIOUS_FIELD, FILL_FIELD, GOTO_UNFILLED, DETECT_FORMS)
\* change nothing, and handlers in flight fill nothing.
C34_DisabledScriptIsInert ==
  [][(switchedOff /\ switchedOff' /\ handler' # "") =>
       UNCHANGED detectorState]_vars

\* C35: for every message the content script receives, sendResponse is
\* called exactly once before the listener returns; a message whose type
\* has no handler (such as TOGGLE_VOICE) is answered with success false and
\* the error 'Unknown message type' and changes neither the field list nor
\* the cursor; NEXT_FIELD and PREVIOUS_FIELD answer success false exactly
\* when the field list is empty.
C35_EveryMessageAnsweredOnce ==
  [][handler' = "message" =>
       /\ response'.count = 1
       /\ response'.type = "TOGGLE_VOICE" =>
            /\ response'.success = "false"
            /\ response'.error = "Unknown message type"
            /\ UNCHANGED <<fields, currentFieldIndex>>
       /\ response'.type \in {"NEXT_FIELD", "PREVIOUS_FIELD"} =>
            (response'.success = "false" <=> Len(fields) = 0)]_vars

\* C33: in every reachable state of the content script an overlay exists
\* only while isExtensionEnabled is true, and after DISABLE_EXTENSION has
\* been handled no overlay exists until ENABLE_EXTENSION is handled, under
\* every ordering of the storage read callback, the load event and the
\* ENABLE_EXTENSION / DISABLE_EXTENSION messages.  (The script holds one
\* overlay reference, so there is never more than one overlay.)
C33_OverlayOnlyWhileEnabled ==
  /\ overlay => isExtensionEnabled
  /\ switchedOff => ~overlay

====
